---- MODULE Spec2Model ----
(***************************************************************************)
(* Control-plane model of the GMAX4002 V4L2 sensor driver (gmax4002.c):    *)
(* runtime power management, the stream enable/disable protocol, the       *)
(* control dispatcher and the pad format, as a state machine of caller     *)
(* threads stepping through the driver's handlers one bus or power         *)
(* operation at a time, plus the runtime-PM worker that suspends the       *)
(* device when its usage count is zero.                                    *)
(***************************************************************************)
EXTENDS Integers, Sequences, FiniteSets, TLC

\* ------------------------------------------------------------------ bounds
\* number of concurrent callers of the subdev / control operations
NumThreads ==
    2
\* number of entries of mode_common_regs that are modelled (a prefix of the table)
NumCommonRegs ==
    3
\* cap of the runtime-PM usage count in the guards of the calls that take a reference
MaxUsage ==
    3
\* cap of the length of the power log in the guards of SpecPower's calls
MaxPwrLog ==
    7

Threads ==
    1..NumThreads

\* largest index a caller passes to an enumeration
MaxIndex ==
    2

\* --------------------------------------------------------------- constants
GMAX4002_EXPOSURE_DEFAULT ==
    1000
GMAX4002_PIXEL_RATE ==
    60000000
GMAX4002_LINK_FREQ ==
    600000000
GMAX4002_ANA_GAIN_MIN ==
    0
GMAX4002_ANA_GAIN_MAX ==
    15
GMAX4002_REG_BLKLEVEL ==
    12379
GMAX4002_REG_ANALOG_GAIN ==
    11977
GMAX4002_REG_FLIP_H ==
    12290
GMAX4002_REG_FLIP_V ==
    11781
GMAX4002_NATIVE_WIDTH ==
    2048
GMAX4002_NATIVE_HEIGHT ==
    1218
GMAX4002_PIXEL_ARRAY_LEFT ==
    0
GMAX4002_PIXEL_ARRAY_TOP ==
    18
GMAX4002_PIXEL_ARRAY_WIDTH ==
    2048
GMAX4002_PIXEL_ARRAY_HEIGHT ==
    1200
MEDIA_BUS_FMT_SRGGB10_1X10 ==
    12303
MEDIA_BUS_FMT_SGRBG10_1X10 ==
    12298
MEDIA_BUS_FMT_SGBRG10_1X10 ==
    12302
MEDIA_BUS_FMT_SBGGR10_1X10 ==
    12295
MEDIA_BUS_FMT_Y10_1X10 ==
    8202
\* a register address of the sequencing block: 0x2E00, 0x3301, 0x3023, 0x3024
REG_2E00 ==
    11776
REG_3301 ==
    13057
REG_3023 ==
    12323
REG_3024 ==
    12324
\* error numbers: a failed bus transfer, a grabbed control, a failed rail or clock
EIO ==
    0 - 5
EBUSY ==
    0 - 16
ENODEV ==
    0 - 19
EINVAL ==
    0 - 22

\* width of a CCI_REG8 register value
REG8_MOD ==
    256

\* the first entries of mode_common_regs, in table order
mode_common_regs ==
    << [reg |-> 11776, val |-> 0], [reg |-> 11777, val |-> 1],
       [reg |-> 11778, val |-> 0], [reg |-> 11779, val |-> 6],
       [reg |-> 11780, val |-> 0], [reg |-> 11781, val |-> 8] >>

\* variant: two updates of the micro-sequence swapped
enable_seq_reordered ==
    << [src |-> "clk_stable", op |-> "update_bits", reg |-> REG_2E00, mask |-> 1,   val |-> 1],
       [src |-> "pwr_up",     op |-> "write",       reg |-> REG_3301, mask |-> 255, val |-> 1],
       [src |-> "micro",      op |-> "update_bits", reg |-> REG_3024, mask |-> 32,  val |-> 0],
       [src |-> "micro",      op |-> "update_bits", reg |-> REG_3023, mask |-> 1,   val |-> 1],
       [src |-> "micro",      op |-> "update_bits", reg |-> REG_3023, mask |-> 240, val |-> 240],
       [src |-> "micro",      op |-> "update_bits", reg |-> REG_3023, mask |-> 6,   val |-> 6],
       [src |-> "micro",      op |-> "update_bits", reg |-> REG_3024, mask |-> 32,  val |-> 32],
       [src |-> "micro",      op |-> "update_bits", reg |-> REG_3023, mask |-> 4,   val |-> 0],
       [src |-> "stream_en",  op |-> "update_bits", reg |-> REG_2E00, mask |-> 2,   val |-> 2] >>

\* the register operations of enable_streams that follow the common table,
\* in program order: every one of them is passed &ret
enable_seq ==
    << [src |-> "clk_stable", op |-> "update_bits", reg |-> REG_2E00, mask |-> 1,   val |-> 1],
       [src |-> "pwr_up",     op |-> "write",       reg |-> REG_3301, mask |-> 255, val |-> 1],
       [src |-> "micro",      op |-> "update_bits", reg |-> REG_3024, mask |-> 32,  val |-> 0],
       [src |-> "micro",      op |-> "update_bits", reg |-> REG_3023, mask |-> 240, val |-> 240],
       [src |-> "micro",      op |-> "update_bits", reg |-> REG_3023, mask |-> 1,   val |-> 1],
       [src |-> "micro",      op |-> "update_bits", reg |-> REG_3023, mask |-> 6,   val |-> 6],
       [src |-> "micro",      op |-> "update_bits", reg |-> REG_3024, mask |-> 32,  val |-> 32],
       [src |-> "micro",      op |-> "update_bits", reg |-> REG_3023, mask |-> 4,   val |-> 0],
       [src |-> "stream_en",  op |-> "update_bits", reg |-> REG_2E00, mask |-> 2,   val |-> 2] >>

\* the controls gmax4002_init_controls creates that are not read-only, in the
\* order of creation: the order in which __v4l2_ctrl_handler_setup calls s_ctrl
setup_ctrls ==
    << "vblank", "hblank", "exposure", "gain", "vflip", "hflip" >>

\* control ids gmax4002_set_ctrl has a case for, and one it has none for
CtrlIds ==
    { "exposure", "gain", "vblank", "hblank", "vflip", "hflip", "brightness", "other" }

\* values within the range each control was created with
CtrlRange(id) ==
    CASE id = "exposure" -> { GMAX4002_EXPOSURE_DEFAULT }
      [] id = "gain"     -> { GMAX4002_ANA_GAIN_MIN, GMAX4002_ANA_GAIN_MAX }
      [] id = "vblank"   -> { 0, 1048575 }
      [] id = "hblank"   -> { 0, 65535 }
      [] id = "vflip"    -> { 0, 1 }
      [] id = "hflip"    -> { 0, 1 }
      [] OTHER           -> { 0 }

\* the value an uninitialised int local may hold when it is read
UninitInt ==
    { 0 - 1, 0 }

\* ------------------------------------------------------------------- state
VARIABLES
    rpm_status,     \* runtime-PM status of the device
    usage_count,    \* runtime-PM usage count (power references)
    supplies,       \* the three supply rails are enabled
    xclk,           \* the external clock is enabled
    reset_gpio,     \* value driven on the reset line
    grabbed,        \* V4L2_CTRL_FLAG_GRABBED of vflip and hflip
    cur,            \* current (stored) value of every control that has one
    streaming,      \* struct gmax4002.streaming
    enabled_pads,   \* the subdev core's record that the stream is enabled
    fmt,            \* the pad format kept in the subdev state
    crop,           \* the pad crop kept in the subdev state
    lock,           \* owner of each mutex (0: free)
    th,             \* per caller thread: position and locals of the handler it runs
    pm_pc,          \* position of the runtime-PM worker in gmax4002_power_off
    bus_log,        \* register operations issued by the operation in progress
    pwr_log,        \* rail/clock/reset steps of the power transition in progress
    session,        \* Idle / Configuring / Streaming, as the handlers leave it
    pre,            \* session values at the entry of the operation in progress
    pre_enable,     \* session values at the entry of the last enable_streams
    prev            \* "enable_ok" when the operation that returned last is an enable_streams that returned 0

vars ==
    << rpm_status, usage_count, supplies, xclk, reset_gpio, grabbed, cur,
       streaming, enabled_pads, fmt, crop, lock, th, pm_pc, bus_log, pwr_log,
       session, pre, pre_enable, prev >>

hw_vars ==
    << supplies, xclk, reset_gpio >>

fmt_vars ==
    << fmt, crop >>

IdleThread ==
    [ pc |-> "idle", op |-> "none", ctx |-> "none", ret |-> 0, sret |-> 0,
      idx |-> 0, ctl |-> [id |-> "none", val |-> 0], active |-> FALSE,
      req |-> [code |-> 0, width |-> 0, height |-> 0],
      arg |-> << >>, out |-> << >> ]

\* the session values the handlers may change
SessionSnapshot ==
    [ usage |-> usage_count, grabbed |-> grabbed, streaming |-> streaming,
      session |-> session ]

\* the same, with the runtime-PM status, at the entry of an operation
Snapshot ==
    [ usage |-> usage_count, grabbed |-> grabbed, streaming |-> streaming,
      session |-> session, rpm |-> rpm_status ]

NoSessionSnapshot ==
    [ usage |-> 0, grabbed |-> [vflip |-> FALSE, hflip |-> FALSE],
      streaming |-> FALSE, session |-> "Idle" ]

NoSnapshot ==
    [ usage |-> 0, grabbed |-> [vflip |-> FALSE, hflip |-> FALSE],
      streaming |-> FALSE, session |-> "Idle", rpm |-> "none" ]

\* one record of the bus log
BusOp(src, op, reg, mask, val, ok) ==
    [ src |-> src, op |-> op, reg |-> reg, mask |-> mask, val |-> val, ok |-> ok ]

\* cci_write to a CCI_REG8 register: the value is truncated to one byte
cci_write8(src, reg, val, ok) ==
    BusOp(src, "write", reg, REG8_MOD - 1, val % REG8_MOD, ok)

\* ------------------------------------------------------------------- locks
\* v4l2_ctrl_handler_init: the handler's lock is its own mutex
ctrl_handler_lock ==
    "ctrl_handler._lock"

\* variant: the subdev state keeps a mutex of its own
state_lock_separate ==
    "sd.active_state._lock"

\* gmax4002_probe: sd.state_lock = ctrl_handler.lock
state_lock ==
    ctrl_handler_lock

LockNames ==
    { "ctrl_handler._lock", "sd.active_state._lock" }

\* the mutex an operation runs under
LockOf(op) ==
    IF op = "set_ctrl" THEN ctrl_handler_lock ELSE state_lock

\* -------------------------------------------------------------- runtime PM
\* rpm_drop_usage_count: the count never goes below zero
rpm_put(u) ==
    IF u > 0 THEN u - 1 ELSE 0

gmax4002_link_freq_menu ==
    << GMAX4002_LINK_FREQ >>

\* variant: the pixel rate is derived from the external clock rate
ctrl_defaults_from_xclk(xclk_freq) ==
    [ exposure |-> GMAX4002_EXPOSURE_DEFAULT, gain |-> 0, vflip |-> 0, hflip |-> 0,
      pixel_rate |-> xclk_freq * 2, link_freq |-> gmax4002_link_freq_menu[1] ]

\* gmax4002_init_controls: every control starts at the default it is created
\* with; V4L2_CID_PIXEL_RATE is created with range 1..GMAX4002_PIXEL_RATE and
\* default 1, V4L2_CID_LINK_FREQ with entry 0 of the menu. The clock rate read
\* by the probe (xclk_freq) is not passed on
ctrl_defaults(xclk_freq) ==
    [ exposure |-> GMAX4002_EXPOSURE_DEFAULT, gain |-> 0, vflip |-> 0, hflip |-> 0,
      pixel_rate |-> 1, link_freq |-> gmax4002_link_freq_menu[1] ]

\* the device as a successful probe leaves it: powered, rails and clock on,
\* reset released
InitPowered ==
    /\ rpm_status = "active"
    /\ supplies = TRUE
    /\ xclk = TRUE
    /\ reset_gpio = 1

\* the session as a successful probe leaves it: the probe's own reference
\* dropped, init_state applied, nothing in progress
InitSession ==
    /\ usage_count = 0
    /\ grabbed = [vflip |-> FALSE, hflip |-> FALSE]
    /\ cur = ctrl_defaults(0)
    /\ streaming = FALSE
    /\ enabled_pads = FALSE
    /\ fmt = [code |-> MEDIA_BUS_FMT_SRGGB10_1X10, width |-> GMAX4002_NATIVE_WIDTH,
              height |-> GMAX4002_NATIVE_HEIGHT]
    /\ crop = [left |-> GMAX4002_PIXEL_ARRAY_LEFT, top |-> GMAX4002_PIXEL_ARRAY_TOP,
               width |-> GMAX4002_PIXEL_ARRAY_WIDTH, height |-> GMAX4002_PIXEL_ARRAY_HEIGHT]
    /\ lock = [l \in LockNames |-> 0]
    /\ pm_pc = "idle"
    /\ bus_log = << >>
    /\ pwr_log = << >>
    /\ session = "Idle"
    /\ pre = NoSnapshot
    /\ pre_enable = NoSessionSnapshot
    /\ prev = "other"

\* state after a successful probe
Init ==
    /\ InitPowered
    /\ InitSession
    /\ th = [t \in Threads |-> IdleThread]

\* ----------------------------------------------------------- thread helpers
At(t, p) ==
    th[t].pc = p

InOp(t) ==
    th[t].pc # "idle"

Acquire(t, l) ==
    /\ lock[l] = 0
    /\ lock' = [lock EXCEPT ![l] = t]

Release(t, l) ==
    lock' = [lock EXCEPT ![l] = IF @ = t THEN 0 ELSE @]

\* where gmax4002_set_ctrl returns to: the ioctl path or __v4l2_ctrl_handler_setup
sc_return_pc(ctx) ==
    IF ctx = "setup" THEN "en_setup_next" ELSE "sc_ret"

\* -------------------------------------------------------------- set_control
\* the switch of gmax4002_set_ctrl: the register a control id writes, 0 for none.
\* case V4L2_CID_EXPOSURE has no break and falls through to V4L2_CID_ANALOGUE_GAIN
set_ctrl_reg(id) ==
    CASE id = "exposure" -> GMAX4002_REG_ANALOG_GAIN
      [] id = "gain"     -> GMAX4002_REG_ANALOG_GAIN
      [] id = "vflip"    -> GMAX4002_REG_FLIP_V
      [] id = "hflip"    -> GMAX4002_REG_FLIP_H
      [] OTHER           -> 0

\* the control framework refuses to set a grabbed control: -EBUSY, s_ctrl not called
ctrl_is_grabbed(id) ==
    /\ id \in { "vflip", "hflip" }
    /\ grabbed[id]

\* a caller sets control id to val: the framework takes the handler's lock and
\* calls gmax4002_set_ctrl unless the control is grabbed
CallSetCtrl(t, id, val) ==
    /\ At(t, "idle")
    /\ usage_count < MaxUsage
    /\ Acquire(t, LockOf("set_ctrl"))
    /\ th' = [th EXCEPT ![t] = [IdleThread EXCEPT
                 !.pc   = IF ctrl_is_grabbed(id) THEN "sc_ret" ELSE "sc_get",
                 !.op   = "set_ctrl",
                 !.ctx  = "user",
                 !.sret = IF ctrl_is_grabbed(id) THEN EBUSY ELSE 0,
                 !.ctl  = [id |-> id, val |-> val]]]
    /\ bus_log' = << >>
    /\ pre' = Snapshot
    /\ UNCHANGED << rpm_status, usage_count, hw_vars, grabbed, cur, streaming,
                    enabled_pads, fmt_vars, pm_pc, pwr_log, session, pre_enable, prev >>


\* variant: the powered check is missing and the switch is always entered
set_ctrl_get_unchecked(t) ==
    /\ At(t, "sc_get")
    /\ usage_count' = usage_count + 1
    /\ th' = [th EXCEPT ![t].pc = "sc_switch", ![t].active = TRUE]
    /\ UNCHANGED << rpm_status, hw_vars, grabbed, cur, streaming, enabled_pads,
                    fmt_vars, lock, pm_pc, bus_log, pwr_log, session, pre,
                    pre_enable, prev >>

\* variant: the status is tested but no reference is taken (pm_runtime_active)
set_ctrl_get_noref(t) ==
    /\ At(t, "sc_get")
    /\ usage_count' = usage_count
    /\ IF rpm_status = "active"
       THEN th' = [th EXCEPT ![t].pc = "sc_switch", ![t].active = TRUE]
       ELSE th' = [th EXCEPT ![t].pc = sc_return_pc(th[t].ctx), ![t].sret = 0,
                             ![t].active = FALSE]
    /\ UNCHANGED << rpm_status, hw_vars, grabbed, cur, streaming, enabled_pads,
                    fmt_vars, lock, pm_pc, bus_log, pwr_log, session, pre,
                    pre_enable, prev >>

\* if (!pm_runtime_get_if_active(dev)) return 0;
\* the status check and the reference are taken atomically under the PM lock
set_ctrl_get(t) ==
    /\ At(t, "sc_get")
    /\ IF rpm_status = "active"
       THEN /\ usage_count' = usage_count + 1
            /\ th' = [th EXCEPT ![t].pc = "sc_switch", ![t].active = TRUE]
       ELSE /\ usage_count' = usage_count
            /\ th' = [th EXCEPT ![t].pc = sc_return_pc(th[t].ctx), ![t].sret = 0,
                                ![t].active = FALSE]
    /\ UNCHANGED << rpm_status, hw_vars, grabbed, cur, streaming, enabled_pads,
                    fmt_vars, lock, pm_pc, bus_log, pwr_log, session, pre,
                    pre_enable, prev >>

\* switch (ctrl->id): one cci_write for the ids that have a register, nothing else
set_ctrl_switch(t) ==
    /\ At(t, "sc_switch")
    /\ LET id  == th[t].ctl.id
           reg == set_ctrl_reg(id)
       IN  IF reg # 0
           THEN \E ok \in BOOLEAN :
                  /\ bus_log' = Append(bus_log, cci_write8(id, reg, th[t].ctl.val, ok))
                  /\ th' = [th EXCEPT ![t].pc = "sc_put",
                                      ![t].sret = IF ok THEN 0 ELSE EIO]
           ELSE /\ bus_log' = bus_log
                /\ th' = [th EXCEPT ![t].pc = "sc_put", ![t].sret = 0]
    /\ UNCHANGED << rpm_status, usage_count, hw_vars, grabbed, cur, streaming,
                    enabled_pads, fmt_vars, lock, pm_pc, pwr_log, session, pre,
                    pre_enable, prev >>

\* variant: the reference taken by pm_runtime_get_if_active is not dropped
set_ctrl_put_leak(t) ==
    /\ At(t, "sc_put")
    /\ usage_count' = usage_count
    /\ th' = [th EXCEPT ![t].pc = sc_return_pc(th[t].ctx)]
    /\ UNCHANGED << rpm_status, hw_vars, grabbed, cur, streaming, enabled_pads,
                    fmt_vars, lock, pm_pc, bus_log, pwr_log, session, pre,
                    pre_enable, prev >>

\* pm_runtime_put(dev); return ret;
set_ctrl_put(t) ==
    /\ At(t, "sc_put")
    /\ usage_count' = rpm_put(usage_count)
    /\ th' = [th EXCEPT ![t].pc = sc_return_pc(th[t].ctx)]
    /\ UNCHANGED << rpm_status, hw_vars, grabbed, cur, streaming, enabled_pads,
                    fmt_vars, lock, pm_pc, bus_log, pwr_log, session, pre,
                    pre_enable, prev >>

\* the framework stores the new value when s_ctrl returned 0, and unlocks
SetCtrlReturn(t) ==
    /\ At(t, "sc_ret")
    /\ cur' = IF th[t].sret = 0 /\ th[t].ctl.id \in DOMAIN cur
              THEN [cur EXCEPT ![th[t].ctl.id] = th[t].ctl.val]
              ELSE cur
    /\ Release(t, LockOf("set_ctrl"))
    /\ prev' = "other"
    /\ th' = [th EXCEPT ![t] = IdleThread]
    /\ bus_log' = << >>
    /\ pre' = NoSnapshot
    /\ UNCHANGED << rpm_status, usage_count, hw_vars, grabbed, streaming,
                    enabled_pads, fmt_vars, pm_pc, pwr_log, session, pre_enable >>

\* ------------------------------------------------------------------ power
PwrStep(step, ok) ==
    [ step |-> step, ok |-> ok ]


\* variant: the result of regulator_bulk_enable is not tested
power_on_regulator_unchecked(t) ==
    /\ At(t, "pon_regulator")
    /\ \E ok \in BOOLEAN :
         /\ pwr_log' = Append(pwr_log, PwrStep("regulator_bulk_enable", ok))
         /\ supplies' = ok
         /\ th' = [th EXCEPT ![t].pc = "pon_clk", ![t].ret = IF ok THEN 0 ELSE ENODEV]
    /\ UNCHANGED << rpm_status, usage_count, xclk, reset_gpio, grabbed, cur,
                    streaming, enabled_pads, fmt_vars, lock, pm_pc, bus_log,
                    session, pre, pre_enable, prev >>

\* ret = regulator_bulk_enable(...); if (ret) return ret;
power_on_regulator(t) ==
    /\ At(t, "pon_regulator")
    /\ \E ok \in BOOLEAN :
         /\ pwr_log' = Append(pwr_log, PwrStep("regulator_bulk_enable", ok))
         /\ supplies' = ok
         /\ th' = [th EXCEPT ![t].pc = IF ok THEN "pon_clk" ELSE "pon_ret",
                             ![t].ret = IF ok THEN 0 ELSE ENODEV]
    /\ UNCHANGED << rpm_status, usage_count, xclk, reset_gpio, grabbed, cur,
                    streaming, enabled_pads, fmt_vars, lock, pm_pc, bus_log,
                    session, pre, pre_enable, prev >>

\* variant: a failed clk_prepare_enable returns without the reg_off rollback
power_on_clk_noundo(t) ==
    /\ At(t, "pon_clk")
    /\ \E ok \in BOOLEAN :
         /\ pwr_log' = Append(pwr_log, PwrStep("clk_prepare_enable", ok))
         /\ xclk' = ok
         /\ th' = [th EXCEPT ![t].pc = IF ok THEN "pon_gpio" ELSE "pon_ret",
                             ![t].ret = IF ok THEN 0 ELSE ENODEV]
    /\ UNCHANGED << rpm_status, usage_count, supplies, reset_gpio, grabbed, cur,
                    streaming, enabled_pads, fmt_vars, lock, pm_pc, bus_log,
                    session, pre, pre_enable, prev >>

\* ret = clk_prepare_enable(xclk); if (ret) goto reg_off;
power_on_clk(t) ==
    /\ At(t, "pon_clk")
    /\ \E ok \in BOOLEAN :
         /\ pwr_log' = Append(pwr_log, PwrStep("clk_prepare_enable", ok))
         /\ xclk' = ok
         /\ th' = [th EXCEPT ![t].pc = IF ok THEN "pon_gpio" ELSE "pon_reg_off",
                             ![t].ret = IF ok THEN 0 ELSE ENODEV]
    /\ UNCHANGED << rpm_status, usage_count, supplies, reset_gpio, grabbed, cur,
                    streaming, enabled_pads, fmt_vars, lock, pm_pc, bus_log,
                    session, pre, pre_enable, prev >>

\* reg_off: regulator_bulk_disable(...); return ret;
power_on_reg_off(t) ==
    /\ At(t, "pon_reg_off")
    /\ pwr_log' = Append(pwr_log, PwrStep("regulator_bulk_disable", TRUE))
    /\ supplies' = FALSE
    /\ th' = [th EXCEPT ![t].pc = "pon_ret"]
    /\ UNCHANGED << rpm_status, usage_count, xclk, reset_gpio, grabbed, cur,
                    streaming, enabled_pads, fmt_vars, lock, pm_pc, bus_log,
                    session, pre, pre_enable, prev >>

\* gpiod_set_value_cansleep(reset_gpio, 1);
power_on_gpio(t) ==
    /\ At(t, "pon_gpio")
    /\ pwr_log' = Append(pwr_log, PwrStep("reset_release", TRUE))
    /\ reset_gpio' = 1
    /\ th' = [th EXCEPT ![t].pc = "pon_delay"]
    /\ UNCHANGED << rpm_status, usage_count, supplies, xclk, grabbed, cur,
                    streaming, enabled_pads, fmt_vars, lock, pm_pc, bus_log,
                    session, pre, pre_enable, prev >>

\* usleep_range(XCLR_MIN_DELAY_US, ...); return 0;
power_on_delay(t) ==
    /\ At(t, "pon_delay")
    /\ pwr_log' = Append(pwr_log, PwrStep("usleep_range", TRUE))
    /\ th' = [th EXCEPT ![t].pc = "pon_ret", ![t].ret = 0]
    /\ UNCHANGED << rpm_status, usage_count, hw_vars, grabbed, cur, streaming,
                    enabled_pads, fmt_vars, lock, pm_pc, bus_log, session, pre,
                    pre_enable, prev >>

\* the runtime-resume callback returns to pm_runtime_get_sync: the device is
\* active when gmax4002_power_on returned 0 and stays suspended otherwise
power_on_return(t) ==
    /\ At(t, "pon_ret")
    /\ IF th[t].ret = 0
       THEN /\ rpm_status' = "active"
            /\ th' = [th EXCEPT ![t].pc = "en_common", ![t].idx = 1]
       ELSE /\ rpm_status' = "suspended"
            /\ th' = [th EXCEPT ![t].pc = "en_get_fail"]
    /\ pwr_log' = << >>
    /\ UNCHANGED << usage_count, hw_vars, grabbed, cur, streaming, enabled_pads,
                    fmt_vars, lock, pm_pc, bus_log, session, pre, pre_enable, prev >>

\* the PM core runs the runtime-suspend callback only for an active device whose
\* usage count is zero, and marks it suspending first
rpm_suspend(u, st) ==
    /\ st = "active"
    /\ u = 0

power_off_start ==
    /\ pm_pc = "idle"
    /\ rpm_suspend(usage_count, rpm_status)
    /\ rpm_status' = "suspending"
    /\ pm_pc' = "poff_gpio"
    /\ pwr_log' = << >>
    /\ UNCHANGED << usage_count, hw_vars, grabbed, cur, streaming, enabled_pads,
                    fmt_vars, lock, th, bus_log, session, pre, pre_enable, prev >>

\* gpiod_set_value_cansleep(reset_gpio, 0);
power_off_gpio ==
    /\ pm_pc = "poff_gpio"
    /\ pwr_log' = Append(pwr_log, PwrStep("reset_assert", TRUE))
    /\ reset_gpio' = 0
    /\ pm_pc' = "poff_regulator"
    /\ UNCHANGED << rpm_status, usage_count, supplies, xclk, grabbed, cur,
                    streaming, enabled_pads, fmt_vars, lock, th, bus_log,
                    session, pre, pre_enable, prev >>

\* regulator_bulk_disable(...); the result is not tested. The step is logged with
\* whether the rails were enabled: disabling rails that are not enabled is an
\* unbalanced disable, which the regulator core refuses, and the rails stay off
power_off_regulator ==
    /\ pm_pc = "poff_regulator"
    /\ pwr_log' = Append(pwr_log, PwrStep("regulator_bulk_disable", supplies))
    /\ supplies' = FALSE
    /\ pm_pc' = "poff_clk"
    /\ UNCHANGED << rpm_status, usage_count, xclk, reset_gpio, grabbed, cur,
                    streaming, enabled_pads, fmt_vars, lock, th, bus_log,
                    session, pre, pre_enable, prev >>

\* variant: the clock is left running
power_off_clk_missing ==
    /\ pm_pc = "poff_clk"
    /\ pm_pc' = "poff_ret"
    /\ UNCHANGED << rpm_status, usage_count, hw_vars, grabbed, cur, streaming,
                    enabled_pads, fmt_vars, lock, th, bus_log, pwr_log, session,
                    pre, pre_enable, prev >>

\* clk_disable_unprepare(xclk); return 0; The step is logged with whether the
\* clock was enabled: the clock core refuses to disable a clock that is not
\* enabled, and the clock stays off
power_off_clk ==
    /\ pm_pc = "poff_clk"
    /\ pwr_log' = Append(pwr_log, PwrStep("clk_disable_unprepare", xclk))
    /\ xclk' = FALSE
    /\ pm_pc' = "poff_ret"
    /\ UNCHANGED << rpm_status, usage_count, supplies, reset_gpio, grabbed, cur,
                    streaming, enabled_pads, fmt_vars, lock, th, bus_log, session,
                    pre, pre_enable, prev >>

\* the runtime-suspend callback returned 0: the device is suspended
power_off_return ==
    /\ pm_pc = "poff_ret"
    /\ pm_pc' = "idle"
    /\ rpm_status' = "suspended"
    /\ pwr_log' = << >>
    /\ UNCHANGED << usage_count, hw_vars, grabbed, cur, streaming, enabled_pads,
                    fmt_vars, lock, th, bus_log, session, pre, pre_enable, prev >>

\* ------------------------------------------------------------ stream on/off
\* the subdev core calls enable_streams, under the state lock, only for a stream
\* that is not enabled
CallEnable(t) ==
    /\ At(t, "idle")
    /\ ~enabled_pads
    /\ usage_count < MaxUsage
    /\ Acquire(t, LockOf("enable"))
    /\ th' = [th EXCEPT ![t] = [IdleThread EXCEPT !.pc = "en_get_sync", !.op = "enable"]]
    /\ bus_log' = << >>
    /\ pre' = Snapshot
    /\ pre_enable' = SessionSnapshot
    /\ session' = "Configuring"
    /\ UNCHANGED << rpm_status, usage_count, hw_vars, grabbed, cur, streaming,
                    enabled_pads, fmt_vars, pm_pc, pwr_log, prev >>

\* ret = pm_runtime_get_sync(dev): takes a reference and resumes a suspended
\* device through gmax4002_power_on; it waits for a suspend in progress
enable_streams_get_sync(t) ==
    /\ At(t, "en_get_sync")
    /\ rpm_status \in { "active", "suspended" }
    /\ usage_count' = usage_count + 1
    /\ IF rpm_status = "active"
       THEN /\ th' = [th EXCEPT ![t].pc = "en_common", ![t].idx = 1]
            /\ UNCHANGED << rpm_status, pwr_log >>
       ELSE /\ th' = [th EXCEPT ![t].pc = "pon_regulator"]
            /\ rpm_status' = "resuming"
            /\ pwr_log' = << >>
    /\ UNCHANGED << hw_vars, grabbed, cur, streaming, enabled_pads, fmt_vars,
                    lock, pm_pc, bus_log, session, pre, pre_enable, prev >>

\* if (ret < 0) { pm_runtime_put_noidle(dev); return ret; }
enable_streams_get_fail(t) ==
    /\ At(t, "en_get_fail")
    /\ usage_count' = rpm_put(usage_count)
    /\ session' = "Idle"
    /\ th' = [th EXCEPT ![t].pc = "en_ret"]
    /\ UNCHANGED << rpm_status, hw_vars, grabbed, cur, streaming, enabled_pads,
                    fmt_vars, lock, pm_pc, bus_log, pwr_log, pre, pre_enable, prev >>


\* variant: the table is written to its end whatever a write returns
enable_streams_common_noabort(t) ==
    /\ At(t, "en_common")
    /\ LET i == th[t].idx
           e == mode_common_regs[i]
       IN  \E ok \in BOOLEAN :
             /\ bus_log' = Append(bus_log, cci_write8("common", e.reg, e.val, ok))
             /\ th' = IF i = NumCommonRegs
                      THEN IF ok /\ th[t].ret = 0
                           THEN [th EXCEPT ![t].pc = "en_seq", ![t].idx = 1, ![t].ret = 0]
                           ELSE [th EXCEPT ![t].pc = "en_err_rpm_put", ![t].ret = EIO]
                      ELSE [th EXCEPT ![t].idx = i + 1,
                                      ![t].ret = IF ok THEN th[t].ret ELSE EIO]
    /\ UNCHANGED << rpm_status, usage_count, hw_vars, grabbed, cur, streaming,
                    enabled_pads, fmt_vars, lock, pm_pc, pwr_log, session, pre,
                    pre_enable, prev >>

\* cci_multi_reg_write(mode_common_regs): one write per entry, in table order,
\* returning at the first that fails; if (ret) goto err_rpm_put;
enable_streams_common(t) ==
    /\ At(t, "en_common")
    /\ LET i == th[t].idx
           e == mode_common_regs[i]
       IN  \E ok \in BOOLEAN :
             /\ bus_log' = Append(bus_log, cci_write8("common", e.reg, e.val, ok))
             /\ th' = IF ~ok
                      THEN [th EXCEPT ![t].pc = "en_err_rpm_put", ![t].ret = EIO]
                      ELSE IF i = NumCommonRegs
                      THEN [th EXCEPT ![t].pc = "en_seq", ![t].idx = 1, ![t].ret = 0]
                      ELSE [th EXCEPT ![t].idx = i + 1]
    /\ UNCHANGED << rpm_status, usage_count, hw_vars, grabbed, cur, streaming,
                    enabled_pads, fmt_vars, lock, pm_pc, pwr_log, session, pre,
                    pre_enable, prev >>

\* cci_update_bits(..., &ret) / cci_write(..., &ret): a call made with *err
\* already set does nothing; a failing call sets *err
enable_streams_seq(t) ==
    /\ At(t, "en_seq")
    /\ LET i  == th[t].idx
           e  == enable_seq[i]
           nx == IF i = Len(enable_seq) THEN [pc |-> "en_setup", idx |-> 1]
                                        ELSE [pc |-> "en_seq", idx |-> i + 1]
       IN  IF th[t].ret # 0
           THEN /\ bus_log' = bus_log
                /\ th' = [th EXCEPT ![t].pc = nx.pc, ![t].idx = nx.idx]
           ELSE \E ok \in BOOLEAN :
                  /\ bus_log' = Append(bus_log,
                                   BusOp(e.src, e.op, e.reg, e.mask, e.val, ok))
                  /\ th' = [th EXCEPT ![t].pc = nx.pc, ![t].idx = nx.idx,
                                      ![t].ret = IF ok THEN 0 ELSE EIO]
    /\ UNCHANGED << rpm_status, usage_count, hw_vars, grabbed, cur, streaming,
                    enabled_pads, fmt_vars, lock, pm_pc, pwr_log, session, pre,
                    pre_enable, prev >>

\* the value __v4l2_ctrl_handler_setup passes to s_ctrl: the control's current one
stored_val(id) ==
    IF id \in DOMAIN cur THEN cur[id] ELSE 0

\* __v4l2_ctrl_handler_setup: s_ctrl for the next control of the handler
enable_streams_setup(t) ==
    /\ At(t, "en_setup")
    /\ LET id == setup_ctrls[th[t].idx]
       IN  th' = [th EXCEPT ![t].pc = "sc_get", ![t].ctx = "setup",
                            ![t].ctl = [id |-> id, val |-> stored_val(id)]]
    /\ UNCHANGED << rpm_status, usage_count, hw_vars, grabbed, cur, streaming,
                    enabled_pads, fmt_vars, lock, pm_pc, bus_log, pwr_log,
                    session, pre, pre_enable, prev >>

\* variant: the result of __v4l2_ctrl_handler_setup is not tested
enable_streams_setup_next_unchecked(t) ==
    /\ At(t, "en_setup_next")
    /\ th' = IF th[t].idx = Len(setup_ctrls)
             THEN [th EXCEPT ![t].pc = "en_grab", ![t].ret = th[t].sret]
             ELSE [th EXCEPT ![t].pc = "en_setup", ![t].idx = th[t].idx + 1]
    /\ UNCHANGED << rpm_status, usage_count, hw_vars, grabbed, cur, streaming,
                    enabled_pads, fmt_vars, lock, pm_pc, bus_log, pwr_log,
                    session, pre, pre_enable, prev >>

\* the setup loop stops at the first s_ctrl that fails, and its result is
\* assigned to ret:  ret = __v4l2_ctrl_handler_setup(...); if (ret) goto err_rpm_put;
enable_streams_setup_next(t) ==
    /\ At(t, "en_setup_next")
    /\ th' = IF th[t].sret # 0
             THEN [th EXCEPT ![t].pc = "en_err_rpm_put", ![t].ret = th[t].sret]
             ELSE IF th[t].idx = Len(setup_ctrls)
             THEN [th EXCEPT ![t].pc = "en_grab", ![t].ret = th[t].sret]
             ELSE [th EXCEPT ![t].pc = "en_setup", ![t].idx = th[t].idx + 1]
    /\ UNCHANGED << rpm_status, usage_count, hw_vars, grabbed, cur, streaming,
                    enabled_pads, fmt_vars, lock, pm_pc, bus_log, pwr_log,
                    session, pre, pre_enable, prev >>


\* variant: only hflip is grabbed
enable_streams_grab_hflip_only(t) ==
    /\ At(t, "en_grab")
    /\ grabbed' = [vflip |-> FALSE, hflip |-> TRUE]
    /\ session' = "Streaming"
    /\ th' = [th EXCEPT ![t].pc = "en_ret", ![t].ret = 0]
    /\ UNCHANGED << rpm_status, usage_count, hw_vars, cur, streaming,
                    enabled_pads, fmt_vars, lock, pm_pc, bus_log, pwr_log, pre,
                    pre_enable, prev >>

\* variant: only vflip is grabbed
enable_streams_grab_vflip_only(t) ==
    /\ At(t, "en_grab")
    /\ grabbed' = [vflip |-> TRUE, hflip |-> FALSE]
    /\ session' = "Streaming"
    /\ th' = [th EXCEPT ![t].pc = "en_ret", ![t].ret = 0]
    /\ UNCHANGED << rpm_status, usage_count, hw_vars, cur, streaming,
                    enabled_pads, fmt_vars, lock, pm_pc, bus_log, pwr_log, pre,
                    pre_enable, prev >>

\* usleep_range(STREAM_DELAY); __v4l2_ctrl_grab(vflip, true);
\* __v4l2_ctrl_grab(hflip, true); return 0;
enable_streams_grab(t) ==
    /\ At(t, "en_grab")
    /\ grabbed' = [vflip |-> TRUE, hflip |-> TRUE]
    /\ session' = "Streaming"
    /\ th' = [th EXCEPT ![t].pc = "en_ret", ![t].ret = 0]
    /\ UNCHANGED << rpm_status, usage_count, hw_vars, cur, streaming,
                    enabled_pads, fmt_vars, lock, pm_pc, bus_log, pwr_log, pre,
                    pre_enable, prev >>

\* err_rpm_put: pm_runtime_put_autosuspend(dev); return ret;
enable_streams_err_rpm_put(t) ==
    /\ At(t, "en_err_rpm_put")
    /\ usage_count' = rpm_put(usage_count)
    /\ session' = "Idle"
    /\ th' = [th EXCEPT ![t].pc = "en_ret"]
    /\ UNCHANGED << rpm_status, hw_vars, grabbed, cur, streaming, enabled_pads,
                    fmt_vars, lock, pm_pc, bus_log, pwr_log, pre, pre_enable, prev >>

\* the subdev core records the stream as enabled when enable_streams returned 0
EnableReturn(t) ==
    /\ At(t, "en_ret")
    /\ enabled_pads' = (th[t].ret = 0)
    /\ Release(t, LockOf("enable"))
    /\ prev' = IF th[t].ret = 0 THEN "enable_ok" ELSE "other"
    /\ th' = [th EXCEPT ![t] = IdleThread]
    /\ bus_log' = << >>
    /\ pre' = NoSnapshot
    /\ UNCHANGED << rpm_status, usage_count, hw_vars, grabbed, cur, streaming,
                    fmt_vars, pm_pc, pwr_log, session, pre_enable >>

\* the subdev core calls disable_streams, under the state lock, for an enabled
\* stream; the handler declares  int ret;  and never assigns it
CallDisable(t) ==
    /\ At(t, "idle")
    /\ enabled_pads
    /\ Acquire(t, LockOf("disable"))
    /\ \E r \in UninitInt :
         th' = [th EXCEPT ![t] = [IdleThread EXCEPT !.pc = "dis_ungrab",
                                                     !.op = "disable", !.ret = r]]
    /\ bus_log' = << >>
    /\ pre' = Snapshot
    /\ UNCHANGED << rpm_status, usage_count, hw_vars, grabbed, cur, streaming,
                    enabled_pads, fmt_vars, pm_pc, pwr_log, session, pre_enable, prev >>


\* variant: hflip stays grabbed
disable_streams_ungrab_vflip_only(t) ==
    /\ At(t, "dis_ungrab")
    /\ grabbed' = [grabbed EXCEPT !.vflip = FALSE]
    /\ th' = [th EXCEPT ![t].pc = "dis_put"]
    /\ UNCHANGED << rpm_status, usage_count, hw_vars, cur, streaming,
                    enabled_pads, fmt_vars, lock, pm_pc, bus_log, pwr_log,
                    session, pre, pre_enable, prev >>

\* __v4l2_ctrl_grab(vflip, false); __v4l2_ctrl_grab(hflip, false);
disable_streams_ungrab(t) ==
    /\ At(t, "dis_ungrab")
    /\ grabbed' = [vflip |-> FALSE, hflip |-> FALSE]
    /\ th' = [th EXCEPT ![t].pc = "dis_put"]
    /\ UNCHANGED << rpm_status, usage_count, hw_vars, cur, streaming,
                    enabled_pads, fmt_vars, lock, pm_pc, bus_log, pwr_log,
                    session, pre, pre_enable, prev >>

\* pm_runtime_put_autosuspend(dev); return ret;
disable_streams_put(t) ==
    /\ At(t, "dis_put")
    /\ usage_count' = rpm_put(usage_count)
    /\ session' = "Idle"
    /\ th' = [th EXCEPT ![t].pc = "dis_ret"]
    /\ UNCHANGED << rpm_status, hw_vars, grabbed, cur, streaming, enabled_pads,
                    fmt_vars, lock, pm_pc, bus_log, pwr_log, pre, pre_enable, prev >>

\* the subdev core clears the enabled record only when disable_streams returned 0
DisableReturn(t) ==
    /\ At(t, "dis_ret")
    /\ enabled_pads' = IF th[t].ret = 0 THEN FALSE ELSE enabled_pads
    /\ Release(t, LockOf("disable"))
    /\ prev' = "other"
    /\ th' = [th EXCEPT ![t] = IdleThread]
    /\ bus_log' = << >>
    /\ pre' = NoSnapshot
    /\ UNCHANGED << rpm_status, usage_count, hw_vars, grabbed, cur, streaming,
                    fmt_vars, pm_pc, pwr_log, session, pre_enable >>

\* ------------------------------------------------------------------ format
codes ==
    << MEDIA_BUS_FMT_SRGGB10_1X10, MEDIA_BUS_FMT_SGRBG10_1X10,
       MEDIA_BUS_FMT_SGBRG10_1X10, MEDIA_BUS_FMT_SBGGR10_1X10 >>

mono_codes ==
    << MEDIA_BUS_FMT_Y10_1X10 >>

\* variant: the mode's crop keeps the native height below the 18 masked rows
supported_modes_10bit_tall_crop ==
    << [ width |-> GMAX4002_NATIVE_WIDTH, height |-> GMAX4002_NATIVE_HEIGHT,
         crop |-> [ left |-> GMAX4002_PIXEL_ARRAY_LEFT, top |-> GMAX4002_PIXEL_ARRAY_TOP,
                    width |-> GMAX4002_PIXEL_ARRAY_WIDTH,
                    height |-> GMAX4002_NATIVE_HEIGHT ] ] >>

supported_modes_10bit ==
    << [ width |-> GMAX4002_NATIVE_WIDTH, height |-> GMAX4002_NATIVE_HEIGHT,
         crop |-> [ left |-> GMAX4002_PIXEL_ARRAY_LEFT, top |-> GMAX4002_PIXEL_ARRAY_TOP,
                    width |-> GMAX4002_PIXEL_ARRAY_WIDTH,
                    height |-> GMAX4002_PIXEL_ARRAY_HEIGHT ] ] >>

\* variant: the mono code is wired to the 10-bit mode list
get_mode_table_mono(code) ==
    IF code \in { MEDIA_BUS_FMT_SRGGB10_1X10, MEDIA_BUS_FMT_SGRBG10_1X10,
                  MEDIA_BUS_FMT_SGBRG10_1X10, MEDIA_BUS_FMT_SBGGR10_1X10,
                  MEDIA_BUS_FMT_Y10_1X10 }
    THEN supported_modes_10bit
    ELSE << >>

\* get_mode_table: the 10-bit mode list for the four Bayer codes, else no mode
get_mode_table(code) ==
    IF code \in { MEDIA_BUS_FMT_SRGGB10_1X10, MEDIA_BUS_FMT_SGRBG10_1X10,
                  MEDIA_BUS_FMT_SGBRG10_1X10, MEDIA_BUS_FMT_SBGGR10_1X10 }
    THEN supported_modes_10bit
    ELSE << >>

\* variant: a code that is not in codes[] is returned as it came
gmax4002_get_format_code_passthrough(code) ==
    code

\* gmax4002_get_format_code: the first entry of codes[] equal to code, else codes[0]
gmax4002_get_format_code(code) ==
    IF \E i \in 1..Len(codes) : codes[i] = code
    THEN codes[CHOOSE i \in 1..Len(codes) :
                 /\ codes[i] = code
                 /\ \A j \in 1..(i - 1) : codes[j] # code]
    ELSE codes[1]

Abs(x) ==
    IF x < 0 THEN 0 - x ELSE x

\* v4l2_find_nearest_size: index of the first entry with the least
\* |width - w| + |height - h|, 0 (NULL) for an empty list
find_nearest_size(modes, w, h) ==
    LET err(i) == Abs(modes[i].width - w) + Abs(modes[i].height - h)
    IN  IF Len(modes) = 0
        THEN 0
        ELSE CHOOSE i \in 1..Len(modes) :
               /\ \A j \in 1..Len(modes) : err(i) <= err(j)
               /\ \A j \in 1..(i - 1) : err(j) > err(i)

\* format codes and sizes a caller may request
ReqCodes ==
    { MEDIA_BUS_FMT_SRGGB10_1X10, MEDIA_BUS_FMT_SBGGR10_1X10, MEDIA_BUS_FMT_Y10_1X10, 1 }

ReqSizes ==
    { << 0, 0 >>, << GMAX4002_NATIVE_WIDTH, GMAX4002_NATIVE_HEIGHT >> }

\* the subdev core calls set_fmt under the state lock
CallSetFmt(t, code, w, h) ==
    /\ At(t, "idle")
    /\ Acquire(t, LockOf("set_fmt"))
    /\ th' = [th EXCEPT ![t] = [IdleThread EXCEPT !.pc = "fmt_apply", !.op = "set_fmt",
                 !.req = [code |-> code, width |-> w, height |-> h]]]
    /\ bus_log' = << >>
    /\ pre' = Snapshot
    /\ UNCHANGED << rpm_status, usage_count, hw_vars, grabbed, cur, streaming,
                    enabled_pads, fmt_vars, pm_pc, pwr_log, session, pre_enable, prev >>

\* variant: the mode list is looked up for the requested code as it came; with
\* no mode to take the sizes from, nothing valid is stored
gmax4002_set_pad_format_unnormalised(t) ==
    /\ At(t, "fmt_apply")
    /\ LET code  == th[t].req.code
           modes == get_mode_table(code)
           m     == find_nearest_size(modes, th[t].req.width, th[t].req.height)
       IN  IF m # 0
           THEN /\ fmt' = [code |-> code, width |-> modes[m].width,
                           height |-> modes[m].height]
                /\ crop' = modes[m].crop
           ELSE /\ fmt' = [code |-> code, width |-> 0, height |-> 0]
                /\ crop' = [left |-> 0, top |-> 0, width |-> 0, height |-> 0]
    /\ th' = [th EXCEPT ![t].pc = "fmt_ret", ![t].ret = 0]
    /\ UNCHANGED << rpm_status, usage_count, hw_vars, grabbed, cur, streaming,
                    enabled_pads, lock, pm_pc, bus_log, pwr_log, session, pre,
                    pre_enable, prev >>

\* gmax4002_set_pad_format: normalise the code, take the nearest mode of its
\* mode list, store the format and the mode's crop
gmax4002_set_pad_format(t) ==
    /\ At(t, "fmt_apply")
    /\ LET code  == gmax4002_get_format_code(th[t].req.code)
           modes == get_mode_table(code)
           m     == find_nearest_size(modes, th[t].req.width, th[t].req.height)
       IN  /\ m # 0
           /\ fmt' = [code |-> code, width |-> modes[m].width, height |-> modes[m].height]
           /\ crop' = modes[m].crop
    /\ th' = [th EXCEPT ![t].pc = "fmt_ret", ![t].ret = 0]
    /\ UNCHANGED << rpm_status, usage_count, hw_vars, grabbed, cur, streaming,
                    enabled_pads, lock, pm_pc, bus_log, pwr_log, session, pre,
                    pre_enable, prev >>

SetFmtReturn(t) ==
    /\ At(t, "fmt_ret")
    /\ Release(t, LockOf("set_fmt"))
    /\ prev' = "other"
    /\ th' = [th EXCEPT ![t] = IdleThread]
    /\ pre' = NoSnapshot
    /\ UNCHANGED << rpm_status, usage_count, hw_vars, grabbed, cur, streaming,
                    enabled_pads, fmt_vars, pm_pc, bus_log, pwr_log, session, pre_enable >>

\* the framework initialises a subdev state under the state lock
CallInitState(t) ==
    /\ At(t, "idle")
    /\ Acquire(t, LockOf("init_state"))
    /\ th' = [th EXCEPT ![t] = [IdleThread EXCEPT !.pc = "init_apply", !.op = "init_state",
                 !.req = [code |-> MEDIA_BUS_FMT_SRGGB10_1X10,
                          width |-> GMAX4002_NATIVE_WIDTH,
                          height |-> GMAX4002_NATIVE_HEIGHT]]]
    /\ bus_log' = << >>
    /\ pre' = Snapshot
    /\ UNCHANGED << rpm_status, usage_count, hw_vars, grabbed, cur, streaming,
                    enabled_pads, fmt_vars, pm_pc, pwr_log, session, pre_enable, prev >>

\* gmax4002_init_state: gmax4002_set_pad_format with the default format, then
\* the crop of the first mode stored again; the operation returns like set_fmt
gmax4002_init_state(t) ==
    /\ At(t, "init_apply")
    /\ LET code  == gmax4002_get_format_code(th[t].req.code)
           modes == get_mode_table(code)
           m     == find_nearest_size(modes, th[t].req.width, th[t].req.height)
       IN  /\ m # 0
           /\ fmt' = [code |-> code, width |-> modes[m].width, height |-> modes[m].height]
           /\ crop' = supported_modes_10bit[1].crop
    /\ th' = [th EXCEPT ![t].pc = "fmt_ret", ![t].ret = 0]
    /\ UNCHANGED << rpm_status, usage_count, hw_vars, grabbed, cur, streaming,
                    enabled_pads, lock, pm_pc, bus_log, pwr_log, session, pre,
                    pre_enable, prev >>

\* --------------------------------------------------------------- selection
ZeroRect ==
    [ left |-> 0, top |-> 0, width |-> 0, height |-> 0 ]

\* variant: the crop bounds are reported as the native size
gmax4002_get_selection_native_bounds(sel, f, c) ==
    CASE sel.target \in { "NATIVE_SIZE", "CROP_BOUNDS", "CROP_DEFAULT" }
           -> [ ret |-> 0,
                r |-> [ left |-> 0, top |-> 0, width |-> GMAX4002_NATIVE_WIDTH,
                        height |-> GMAX4002_NATIVE_HEIGHT ] ]
      [] sel.target = "CROP"
           -> [ ret |-> 0, r |-> c ]
      [] OTHER
           -> [ ret |-> EINVAL, r |-> sel.r ]

\* gmax4002_get_selection on the caller's structure sel, with the stored format
\* f and the stored crop c. The mode looked up from the stored format is not used
\* by any branch of the switch
gmax4002_get_selection(sel, f, c) ==
    LET modes == get_mode_table(f.code)
        mode  == find_nearest_size(modes, f.width, f.height)
    IN  CASE sel.target = "NATIVE_SIZE"
               -> [ ret |-> 0,
                    r |-> [ left |-> 0, top |-> 0, width |-> GMAX4002_NATIVE_WIDTH,
                            height |-> GMAX4002_NATIVE_HEIGHT ] ]
          [] sel.target \in { "CROP_BOUNDS", "CROP_DEFAULT" }
               -> [ ret |-> 0,
                    r |-> [ left |-> GMAX4002_PIXEL_ARRAY_LEFT,
                            top |-> GMAX4002_PIXEL_ARRAY_TOP,
                            width |-> GMAX4002_PIXEL_ARRAY_WIDTH,
                            height |-> GMAX4002_PIXEL_ARRAY_HEIGHT ] ]
          [] sel.target = "CROP"
               -> [ ret |-> 0, r |-> c ]
          [] OTHER
               -> [ ret |-> EINVAL, r |-> sel.r ]

\* selection targets a caller may pass: the four of the switch and two others
SelTargets ==
    { "NATIVE_SIZE", "CROP_BOUNDS", "CROP_DEFAULT", "CROP", "COMPOSE", "COMPOSE_BOUNDS" }

\* the subdev core calls get_selection under the state lock; the handler only
\* reads the stored format and crop
CallGetSelection(t, target) ==
    /\ At(t, "idle")
    /\ Acquire(t, LockOf("get_selection"))
    /\ LET sel == [ target |-> target, r |-> ZeroRect ]
       IN  th' = [th EXCEPT ![t] = [IdleThread EXCEPT !.pc = "sel_ret",
                     !.op = "get_selection", !.arg = sel,
                     !.out = gmax4002_get_selection(sel, fmt, crop)]]
    /\ bus_log' = << >>
    /\ pre' = Snapshot
    /\ UNCHANGED << rpm_status, usage_count, hw_vars, grabbed, cur, streaming,
                    enabled_pads, fmt_vars, pm_pc, pwr_log, session, pre_enable, prev >>

GetSelectionReturn(t) ==
    /\ At(t, "sel_ret")
    /\ Release(t, LockOf("get_selection"))
    /\ prev' = "other"
    /\ th' = [th EXCEPT ![t] = IdleThread]
    /\ pre' = NoSnapshot
    /\ UNCHANGED << rpm_status, usage_count, hw_vars, grabbed, cur, streaming,
                    enabled_pads, fmt_vars, pm_pc, bus_log, pwr_log, session, pre_enable >>

\* ------------------------------------------------------------ specification
Next ==
    \/ \E t \in Threads : \E id \in CtrlIds : \E val \in CtrlRange(id) : CallSetCtrl(t, id, val)
    \/ \E t \in Threads : set_ctrl_get(t)
    \/ \E t \in Threads : set_ctrl_switch(t)
    \/ \E t \in Threads : set_ctrl_put(t)
    \/ \E t \in Threads : SetCtrlReturn(t)
    \/ \E t \in Threads : CallEnable(t)
    \/ \E t \in Threads : enable_streams_get_sync(t)
    \/ \E t \in Threads : enable_streams_get_fail(t)
    \/ \E t \in Threads : power_on_regulator(t)
    \/ \E t \in Threads : power_on_clk(t)
    \/ \E t \in Threads : power_on_reg_off(t)
    \/ \E t \in Threads : power_on_gpio(t)
    \/ \E t \in Threads : power_on_delay(t)
    \/ \E t \in Threads : power_on_return(t)
    \/ \E t \in Threads : enable_streams_common(t)
    \/ \E t \in Threads : enable_streams_seq(t)
    \/ \E t \in Threads : enable_streams_setup(t)
    \/ \E t \in Threads : enable_streams_setup_next(t)
    \/ \E t \in Threads : enable_streams_grab(t)
    \/ \E t \in Threads : enable_streams_err_rpm_put(t)
    \/ \E t \in Threads : EnableReturn(t)
    \/ \E t \in Threads : CallDisable(t)
    \/ \E t \in Threads : disable_streams_ungrab(t)
    \/ \E t \in Threads : disable_streams_put(t)
    \/ \E t \in Threads : DisableReturn(t)
    \/ \E t \in Threads : \E c \in ReqCodes : \E sz \in ReqSizes : CallSetFmt(t, c, sz[1], sz[2])
    \/ \E t \in Threads : gmax4002_set_pad_format(t)
    \/ \E t \in Threads : SetFmtReturn(t)
    \/ \E t \in Threads : CallInitState(t)
    \/ \E t \in Threads : gmax4002_init_state(t)
    \/ \E t \in Threads : \E tgt \in SelTargets : CallGetSelection(t, tgt)
    \/ \E t \in Threads : GetSelectionReturn(t)
    \/ power_off_start
    \/ power_off_gpio
    \/ power_off_regulator
    \/ power_off_clk
    \/ power_off_return

Spec ==
    Init /\ [][Next]_vars

\* ------------------------------------------------- format helpers and queries
\* gmax4002_enum_frame_size on the caller's structure fse: the index is tested
\* against the number of modes of fse.code, then the code against its own
\* normalisation; only then are the four sizes written
gmax4002_enum_frame_size_clamped(fse) ==
    LET modes == get_mode_table(fse.code)
        i     == IF fse.index >= Len(modes) THEN Len(modes) ELSE fse.index + 1
    IN  IF Len(modes) = 0
        THEN [ ret |-> EINVAL, fse |-> fse ]
        ELSE [ ret |-> 0,
               fse |-> [fse EXCEPT !.min_width = modes[i].width,
                                   !.max_width = modes[i].width,
                                   !.min_height = modes[i].height,
                                   !.max_height = modes[i].height] ]

gmax4002_enum_frame_size(fse) ==
    LET modes == get_mode_table(fse.code)
    IN  IF fse.index >= Len(modes)
        THEN [ ret |-> EINVAL, fse |-> fse ]
        ELSE IF fse.code # gmax4002_get_format_code(fse.code)
        THEN [ ret |-> EINVAL, fse |-> fse ]
        ELSE [ ret |-> 0,
               fse |-> [fse EXCEPT !.min_width = modes[fse.index + 1].width,
                                   !.max_width = modes[fse.index + 1].width,
                                   !.min_height = modes[fse.index + 1].height,
                                   !.max_height = modes[fse.index + 1].height] ]

\* variant: every entry of codes[] is enumerated
gmax4002_enum_mbus_code_all(e) ==
    IF e.index >= Len(codes)
    THEN [ ret |-> EINVAL, e |-> e ]
    ELSE [ ret |-> 0, e |-> [e EXCEPT !.code = codes[e.index + 1]] ]

\* gmax4002_enum_mbus_code on the caller's structure e: entries is
\* ARRAY_SIZE(codes) / 4, and entry index stands for codes[index * 4]
gmax4002_enum_mbus_code(e) ==
    LET entries == Len(codes) \div 4
    IN  IF e.index >= entries
        THEN [ ret |-> EINVAL, e |-> e ]
        ELSE [ ret |-> 0,
               e |-> [e EXCEPT !.code = gmax4002_get_format_code(codes[e.index * 4 + 1])] ]

\* media bus codes a caller may pass: the four Bayer codes, the mono code, and
\* codes the driver does not know
QueryCodes ==
    { MEDIA_BUS_FMT_SRGGB10_1X10, MEDIA_BUS_FMT_SGRBG10_1X10,
      MEDIA_BUS_FMT_SGBRG10_1X10, MEDIA_BUS_FMT_SBGGR10_1X10,
      MEDIA_BUS_FMT_Y10_1X10, 0, 1, MEDIA_BUS_FMT_SBGGR10_1X10 + 1 }

\* what the caller's structure holds in the four size fields before the call
StaleSizes ==
    { 0, 1 }

\* gmax4002_get_format_code applied to a code
CallGetFormatCode(t, code) ==
    /\ At(t, "idle")
    /\ th' = [th EXCEPT ![t] = [IdleThread EXCEPT !.pc = "q_ret", !.op = "get_format_code",
                 !.arg = code, !.out = gmax4002_get_format_code(code)]]
    /\ UNCHANGED << rpm_status, usage_count, hw_vars, grabbed, cur, streaming,
                    enabled_pads, fmt_vars, lock, pm_pc, bus_log, pwr_log, session,
                    pre, pre_enable, prev >>

\* get_mode_table applied to a code
CallGetModeTable(t, code) ==
    /\ At(t, "idle")
    /\ th' = [th EXCEPT ![t] = [IdleThread EXCEPT !.pc = "q_ret", !.op = "get_mode_table",
                 !.arg = code, !.out = get_mode_table(code)]]
    /\ UNCHANGED << rpm_status, usage_count, hw_vars, grabbed, cur, streaming,
                    enabled_pads, fmt_vars, lock, pm_pc, bus_log, pwr_log, session,
                    pre, pre_enable, prev >>

\* the enum_frame_size pad operation on a caller's structure
CallEnumFrameSize(t, code, index, stale) ==
    /\ At(t, "idle")
    /\ LET fse == [ code |-> code, index |-> index, min_width |-> stale,
                    max_width |-> stale, min_height |-> stale, max_height |-> stale ]
       IN  th' = [th EXCEPT ![t] = [IdleThread EXCEPT !.pc = "q_ret",
                     !.op = "enum_frame_size", !.arg = fse,
                     !.out = gmax4002_enum_frame_size(fse)]]
    /\ UNCHANGED << rpm_status, usage_count, hw_vars, grabbed, cur, streaming,
                    enabled_pads, fmt_vars, lock, pm_pc, bus_log, pwr_log, session,
                    pre, pre_enable, prev >>

\* the enum_mbus_code pad operation on a caller's structure
CallEnumMbusCode(t, index, stale) ==
    /\ At(t, "idle")
    /\ LET e == [ index |-> index, code |-> stale ]
       IN  th' = [th EXCEPT ![t] = [IdleThread EXCEPT !.pc = "q_ret",
                     !.op = "enum_mbus_code", !.arg = e,
                     !.out = gmax4002_enum_mbus_code(e)]]
    /\ UNCHANGED << rpm_status, usage_count, hw_vars, grabbed, cur, streaming,
                    enabled_pads, fmt_vars, lock, pm_pc, bus_log, pwr_log, session,
                    pre, pre_enable, prev >>

QueryReturn(t) ==
    /\ At(t, "q_ret")
    /\ th' = [th EXCEPT ![t] = IdleThread]
    /\ UNCHANGED << rpm_status, usage_count, hw_vars, grabbed, cur, streaming,
                    enabled_pads, fmt_vars, lock, pm_pc, bus_log, pwr_log, session,
                    pre, pre_enable, prev >>

NextQuery ==
    \/ \E t \in Threads : \E c \in QueryCodes : CallGetFormatCode(t, c)
    \/ \E t \in Threads : \E c \in QueryCodes : CallGetModeTable(t, c)
    \/ \E t \in Threads : \E c \in QueryCodes : \E i \in 0..MaxIndex :
          \E s \in StaleSizes : CallEnumFrameSize(t, c, i, s)
    \/ \E t \in Threads : \E i \in 0..MaxIndex : \E s \in StaleSizes :
          CallEnumMbusCode(t, i, s)
    \/ \E t \in Threads : QueryReturn(t)

\* the helpers and queries applied to every input of the bounded sets
SpecQuery ==
    Init /\ [][NextQuery]_vars

\* ------------------------------------------------- the power callbacks alone
\* gmax4002_power_on and gmax4002_power_off as functions: power_off entered
\* whatever the state of the device, power_on entered on an unpowered device.
\* Here pwr_log keeps the steps of all the calls since the initial state, and pre
\* keeps the rails, clock and reset line at the entry of the last power_off.
HwSnapshot ==
    [ supplies |-> supplies, xclk |-> xclk, reset_gpio |-> reset_gpio ]

\* a device that was powered on, or one that was powered off
InitPower ==
    /\ \/ InitPowered
       \/ /\ rpm_status = "suspended"
          /\ supplies = FALSE
          /\ xclk = FALSE
          /\ reset_gpio = 0
    /\ InitSession
    /\ th = [t \in Threads |-> IdleThread]

PowerIdle ==
    /\ pm_pc = "idle"
    /\ \A t \in Threads : ~InOp(t)
    /\ Len(pwr_log) < MaxPwrLog

\* gmax4002_power_on entered: struct gmax4002 taken from the device
power_on_call(t) ==
    /\ PowerIdle
    /\ ~supplies /\ ~xclk /\ reset_gpio = 0
    /\ th' = [th EXCEPT ![t] = [IdleThread EXCEPT !.pc = "pon_regulator", !.op = "power_on"]]
    /\ UNCHANGED << rpm_status, usage_count, hw_vars, grabbed, cur, streaming,
                    enabled_pads, fmt_vars, lock, pm_pc, bus_log, pwr_log, session,
                    pre, pre_enable, prev >>

\* gmax4002_power_on returned
power_on_done(t) ==
    /\ At(t, "pon_ret")
    /\ rpm_status' = IF th[t].ret = 0 THEN "active" ELSE "suspended"
    /\ th' = [th EXCEPT ![t] = IdleThread]
    /\ UNCHANGED << usage_count, hw_vars, grabbed, cur, streaming, enabled_pads,
                    fmt_vars, lock, pm_pc, bus_log, pwr_log, session, pre,
                    pre_enable, prev >>

\* gmax4002_power_off entered: it tests nothing before its first step
power_off_call ==
    /\ PowerIdle
    /\ pm_pc' = "poff_gpio"
    /\ pre' = HwSnapshot
    /\ UNCHANGED << rpm_status, usage_count, hw_vars, grabbed, cur, streaming,
                    enabled_pads, fmt_vars, lock, th, bus_log, pwr_log, session,
                    pre_enable, prev >>

\* gmax4002_power_off returned 0
power_off_done ==
    /\ pm_pc = "poff_ret"
    /\ pm_pc' = "idle"
    /\ rpm_status' = "suspended"
    /\ UNCHANGED << usage_count, hw_vars, grabbed, cur, streaming, enabled_pads,
                    fmt_vars, lock, th, bus_log, pwr_log, session, pre,
                    pre_enable, prev >>

NextPower ==
    \/ \E t \in Threads : power_on_call(t)
    \/ \E t \in Threads : power_on_regulator(t)
    \/ \E t \in Threads : power_on_clk(t)
    \/ \E t \in Threads : power_on_reg_off(t)
    \/ \E t \in Threads : power_on_gpio(t)
    \/ \E t \in Threads : power_on_delay(t)
    \/ \E t \in Threads : power_on_done(t)
    \/ power_off_call
    \/ power_off_gpio
    \/ power_off_regulator
    \/ power_off_clk
    \/ power_off_done

SpecPower ==
    InitPower /\ [][NextPower]_vars

\* ------------------------------------------------------ attach and detach
\* gmax4002_probe and gmax4002_remove around the operations of Next. The thread
\* that runs the probe keeps op = "probe" when the probe failed, the one that
\* runs remove keeps op = "remove": the device is bound in between. Here
\* pwr_log keeps the power steps since the start of the probe until it returns.
Endpoints ==
    { "none", "unparsable", "lanes2", "lanes4" }

\* rates clk_get_rate may return
XclkRates ==
    { 24000000, 37125000 }

Bound ==
    \A t \in Threads : th[t].op \notin { "probe", "remove" }

\* before the probe: nothing powered, runtime PM not enabled, no control, no format
InitLife ==
    /\ rpm_status = "suspended"
    /\ usage_count = 0
    /\ supplies = FALSE
    /\ xclk = FALSE
    /\ reset_gpio = 0
    /\ grabbed = [vflip |-> FALSE, hflip |-> FALSE]
    /\ cur = [ exposure |-> 0, gain |-> 0, vflip |-> 0, hflip |-> 0,
               pixel_rate |-> 0, link_freq |-> 0 ]
    /\ streaming = FALSE
    /\ enabled_pads = FALSE
    /\ fmt = [code |-> 0, width |-> 0, height |-> 0]
    /\ crop = ZeroRect
    /\ lock = [l \in LockNames |-> 0]
    /\ pm_pc = "idle"
    /\ bus_log = << >>
    /\ pwr_log = << >>
    /\ session = "Idle"
    /\ pre = NoSnapshot
    /\ pre_enable = NoSessionSnapshot
    /\ prev = "other"
    /\ \E ep \in Endpoints : \E r \in XclkRates :
         th = [t \in Threads |->
                 IF t = 1
                 THEN [IdleThread EXCEPT !.pc = "pr_hwcfg", !.op = "probe",
                                         !.arg = [endpoint |-> ep, xclk_freq |-> r]]
                 ELSE IdleThread]

\* variant: the lane count of the endpoint is not tested
gmax4002_check_hwcfg_any_lanes(ep) ==
    IF ep \in { "none", "unparsable" } THEN EINVAL ELSE 0

\* gmax4002_check_hwcfg: -EINVAL without an endpoint, for an endpoint that does
\* not parse and for a lane count other than 4
gmax4002_check_hwcfg(ep) ==
    CASE ep = "none"       -> EINVAL
      [] ep = "unparsable" -> EINVAL
      [] ep # "lanes4"     -> EINVAL
      [] OTHER             -> 0

\* ret = gmax4002_check_hwcfg(dev, gmax4002); if (ret) return ret;
probe_check_hwcfg(t) ==
    /\ At(t, "pr_hwcfg")
    /\ LET ret == gmax4002_check_hwcfg(th[t].arg.endpoint)
       IN  th' = [th EXCEPT ![t].ret = ret,
                            ![t].pc = IF ret # 0 THEN "pr_failed" ELSE "pr_resources"]
    /\ UNCHANGED << rpm_status, usage_count, hw_vars, grabbed, cur, streaming,
                    enabled_pads, fmt_vars, lock, pm_pc, bus_log, pwr_log, session,
                    pre, pre_enable, prev >>

\* the regmap, the clock and its rate, the regulators: a failure returns; then
\* the reset line is requested as an output driven high
probe_resources(t) ==
    /\ At(t, "pr_resources")
    /\ \E ok \in BOOLEAN :
         IF ok
         THEN /\ reset_gpio' = 1
              /\ pwr_log' = Append(pwr_log, PwrStep("gpiod_get_out_high", TRUE))
              /\ th' = [th EXCEPT ![t].pc = "pon_regulator"]
         ELSE /\ th' = [th EXCEPT ![t].pc = "pr_failed", ![t].ret = ENODEV]
              /\ UNCHANGED << reset_gpio, pwr_log >>
    /\ UNCHANGED << rpm_status, usage_count, supplies, xclk, grabbed, cur, streaming,
                    enabled_pads, fmt_vars, lock, pm_pc, bus_log, session,
                    pre, pre_enable, prev >>

\* ret = gmax4002_power_on(dev); if (ret) return ret;
probe_power_on_return(t) ==
    /\ At(t, "pon_ret")
    /\ th[t].op = "probe"
    /\ th' = [th EXCEPT ![t].pc = IF th[t].ret # 0 THEN "pr_failed" ELSE "pr_exists"]
    /\ UNCHANGED << rpm_status, usage_count, hw_vars, grabbed, cur, streaming,
                    enabled_pads, fmt_vars, lock, pm_pc, bus_log, pwr_log, session,
                    pre, pre_enable, prev >>

\* variant: a failed presence read returns without powering off
probe_check_module_exists_noundo(t) ==
    /\ At(t, "pr_exists")
    /\ \E ok \in BOOLEAN :
         /\ bus_log' = Append(bus_log, BusOp("probe", "read", GMAX4002_REG_BLKLEVEL, 0, 0, ok))
         /\ th' = [th EXCEPT ![t].ret = IF ok THEN 0 ELSE EIO,
                             ![t].pc = IF ok THEN "pr_pm" ELSE "pr_failed"]
    /\ UNCHANGED << rpm_status, usage_count, hw_vars, grabbed, cur, streaming,
                    enabled_pads, fmt_vars, lock, pm_pc, pwr_log, session,
                    pre, pre_enable, prev >>

\* ret = gmax4002_check_module_exists(gmax4002); if (ret) goto err_power_off;
probe_check_module_exists(t) ==
    /\ At(t, "pr_exists")
    /\ \E ok \in BOOLEAN :
         /\ bus_log' = Append(bus_log, BusOp("probe", "read", GMAX4002_REG_BLKLEVEL, 0, 0, ok))
         /\ th' = [th EXCEPT ![t].ret = IF ok THEN 0 ELSE EIO,
                             ![t].pc = IF ok THEN "pr_pm" ELSE "pr_err_power_off"]
    /\ UNCHANGED << rpm_status, usage_count, hw_vars, grabbed, cur, streaming,
                    enabled_pads, fmt_vars, lock, pm_pc, pwr_log, session,
                    pre, pre_enable, prev >>

\* pm_runtime_set_active; pm_runtime_get_noresume; pm_runtime_enable; ...
probe_pm_enable(t) ==
    /\ At(t, "pr_pm")
    /\ rpm_status' = "active"
    /\ usage_count' = usage_count + 1
    /\ th' = [th EXCEPT ![t].pc = "pr_ctrls"]
    /\ UNCHANGED << hw_vars, grabbed, cur, streaming, enabled_pads, fmt_vars, lock,
                    pm_pc, bus_log, pwr_log, session, pre, pre_enable, prev >>

\* ret = gmax4002_init_controls(gmax4002); if (ret) goto err_pm;
probe_init_controls(t) ==
    /\ At(t, "pr_ctrls")
    /\ \E ok \in BOOLEAN :
         IF ok
         THEN /\ cur' = ctrl_defaults(th[t].arg.xclk_freq)
              /\ th' = [th EXCEPT ![t].pc = "pr_subdev"]
         ELSE /\ cur' = cur
              /\ th' = [th EXCEPT ![t].pc = "pr_err_pm", ![t].ret = ENODEV]
    /\ UNCHANGED << rpm_status, usage_count, hw_vars, grabbed, streaming,
                    enabled_pads, fmt_vars, lock, pm_pc, bus_log, pwr_log, session,
                    pre, pre_enable, prev >>

\* media_entity_pads_init, v4l2_subdev_init_finalize (which runs init_state on
\* the active state) and v4l2_async_register_subdev_sensor: a failure of one of
\* them runs the cleanup labels err_entity / err_ctrls and goes on to err_pm
probe_subdev(t) ==
    /\ At(t, "pr_subdev")
    /\ \E failed \in { "none", "pads", "finalize", "register" } :
         /\ IF failed = "pads"
            THEN UNCHANGED fmt_vars
            ELSE /\ fmt' = [code |-> MEDIA_BUS_FMT_SRGGB10_1X10,
                            width |-> supported_modes_10bit[1].width,
                            height |-> supported_modes_10bit[1].height]
                 /\ crop' = supported_modes_10bit[1].crop
         /\ th' = IF failed = "none"
                  THEN [th EXCEPT ![t].pc = "pr_put"]
                  ELSE [th EXCEPT ![t].pc = "pr_err_pm", ![t].ret = ENODEV]
    /\ UNCHANGED << rpm_status, usage_count, hw_vars, grabbed, cur, streaming,
                    enabled_pads, lock, pm_pc, bus_log, pwr_log, session,
                    pre, pre_enable, prev >>

\* pm_runtime_mark_last_busy; pm_runtime_put_autosuspend; return 0;
probe_put(t) ==
    /\ At(t, "pr_put")
    /\ usage_count' = rpm_put(usage_count)
    /\ th' = [th EXCEPT ![t] = IdleThread]
    /\ bus_log' = << >>
    /\ pwr_log' = << >>
    /\ UNCHANGED << rpm_status, hw_vars, grabbed, cur, streaming, enabled_pads,
                    fmt_vars, lock, pm_pc, session, pre, pre_enable, prev >>

\* err_pm: pm_runtime_disable(dev); pm_runtime_set_suspended(dev);
probe_err_pm(t) ==
    /\ At(t, "pr_err_pm")
    /\ rpm_status' = "suspended"
    /\ th' = [th EXCEPT ![t].pc = "pr_err_power_off"]
    /\ UNCHANGED << usage_count, hw_vars, grabbed, cur, streaming, enabled_pads,
                    fmt_vars, lock, pm_pc, bus_log, pwr_log, session, pre,
                    pre_enable, prev >>

\* err_power_off: gmax4002_power_off(dev) is entered
probe_err_power_off(t) ==
    /\ At(t, "pr_err_power_off")
    /\ pm_pc = "idle"
    /\ pm_pc' = "poff_gpio"
    /\ th' = [th EXCEPT ![t].pc = "pr_in_power_off"]
    /\ UNCHANGED << rpm_status, usage_count, hw_vars, grabbed, cur, streaming,
                    enabled_pads, fmt_vars, lock, bus_log, pwr_log, session,
                    pre, pre_enable, prev >>

\* gmax4002_power_off returned; return ret;
probe_err_return(t) ==
    /\ At(t, "pr_in_power_off")
    /\ pm_pc = "poff_ret"
    /\ pm_pc' = "idle"
    /\ th' = [th EXCEPT ![t].pc = "pr_failed"]
    /\ UNCHANGED << rpm_status, usage_count, hw_vars, grabbed, cur, streaming,
                    enabled_pads, fmt_vars, lock, bus_log, pwr_log, session,
                    pre, pre_enable, prev >>

\* gmax4002_remove up to pm_runtime_disable, which waits for a runtime
\* suspend in progress; the core unbinds a device no operation is running on
remove_pm_disable(t) ==
    /\ Bound
    /\ \A u \in Threads : ~InOp(u)
    /\ pm_pc = "idle"
    /\ th' = [th EXCEPT ![t] = [IdleThread EXCEPT !.pc = "rm_check", !.op = "remove"]]
    /\ pwr_log' = << >>
    /\ UNCHANGED << rpm_status, usage_count, hw_vars, grabbed, cur, streaming,
                    enabled_pads, fmt_vars, lock, pm_pc, bus_log, session,
                    pre, pre_enable, prev >>

\* variant: remove powers off whatever the runtime-PM status
remove_power_off_unchecked(t) ==
    /\ At(t, "rm_check")
    /\ pm_pc' = "poff_gpio"
    /\ th' = [th EXCEPT ![t].pc = "rm_in_power_off"]
    /\ UNCHANGED << rpm_status, usage_count, hw_vars, grabbed, cur, streaming,
                    enabled_pads, fmt_vars, lock, bus_log, pwr_log, session,
                    pre, pre_enable, prev >>

\* if (!pm_runtime_status_suspended(dev)) gmax4002_power_off(dev);
remove_power_off(t) ==
    /\ At(t, "rm_check")
    /\ IF rpm_status # "suspended"
       THEN /\ pm_pc' = "poff_gpio"
            /\ th' = [th EXCEPT ![t].pc = "rm_in_power_off"]
       ELSE /\ pm_pc' = pm_pc
            /\ th' = [th EXCEPT ![t].pc = "rm_set_suspended"]
    /\ UNCHANGED << rpm_status, usage_count, hw_vars, grabbed, cur, streaming,
                    enabled_pads, fmt_vars, lock, bus_log, pwr_log, session,
                    pre, pre_enable, prev >>

\* gmax4002_power_off returned to remove
remove_power_off_return(t) ==
    /\ At(t, "rm_in_power_off")
    /\ pm_pc = "poff_ret"
    /\ pm_pc' = "idle"
    /\ th' = [th EXCEPT ![t].pc = "rm_set_suspended"]
    /\ UNCHANGED << rpm_status, usage_count, hw_vars, grabbed, cur, streaming,
                    enabled_pads, fmt_vars, lock, bus_log, pwr_log, session,
                    pre, pre_enable, prev >>

\* pm_runtime_set_suspended(dev); remove returns
remove_set_suspended(t) ==
    /\ At(t, "rm_set_suspended")
    /\ rpm_status' = "suspended"
    /\ th' = [th EXCEPT ![t].pc = "rm_done"]
    /\ UNCHANGED << usage_count, hw_vars, grabbed, cur, streaming, enabled_pads,
                    fmt_vars, lock, pm_pc, bus_log, pwr_log, session, pre,
                    pre_enable, prev >>

\* the probe and remove run gmax4002_power_on and gmax4002_power_off themselves
InProbeOrRemove ==
    \E t \in Threads : th[t].op \in { "probe", "remove" }

NextLife ==
    \/ \E t \in Threads : probe_check_hwcfg(t)
    \/ \E t \in Threads : probe_resources(t)
    \/ \E t \in Threads : th[t].op = "probe" /\ power_on_regulator(t)
    \/ \E t \in Threads : th[t].op = "probe" /\ power_on_clk(t)
    \/ \E t \in Threads : th[t].op = "probe" /\ power_on_reg_off(t)
    \/ \E t \in Threads : th[t].op = "probe" /\ power_on_gpio(t)
    \/ \E t \in Threads : th[t].op = "probe" /\ power_on_delay(t)
    \/ \E t \in Threads : probe_power_on_return(t)
    \/ \E t \in Threads : probe_check_module_exists(t)
    \/ \E t \in Threads : probe_pm_enable(t)
    \/ \E t \in Threads : probe_init_controls(t)
    \/ \E t \in Threads : probe_subdev(t)
    \/ \E t \in Threads : probe_put(t)
    \/ \E t \in Threads : probe_err_pm(t)
    \/ \E t \in Threads : probe_err_power_off(t)
    \/ \E t \in Threads : probe_err_return(t)
    \/ \E t \in Threads : remove_pm_disable(t)
    \/ \E t \in Threads : remove_power_off(t)
    \/ \E t \in Threads : remove_power_off_return(t)
    \/ \E t \in Threads : remove_set_suspended(t)
    \/ InProbeOrRemove /\ power_off_gpio
    \/ InProbeOrRemove /\ power_off_regulator
    \/ InProbeOrRemove /\ power_off_clk
    \/ Bound /\ Next

\* the driver from before the probe to after remove
SpecLife ==
    InitLife /\ [][NextLife]_vars

\* ------------------------------------------------------------------ claims
Flips ==
    { "vflip", "hflip" }

NoneGrabbed ==
    grabbed = [vflip |-> FALSE, hflip |-> FALSE]

\* the sources of the register operations that follow the common table
SeqSrcs ==
    { "clk_stable", "pwr_up", "micro", "stream_en" }

FailedIn(srcs) ==
    \E i \in DOMAIN bus_log : bus_log[i].src \in srcs /\ ~bus_log[i].ok

\* C1: when one of the writes that follow the common register sequence fails
\* (clock-stable, power-up, micro-sequence, stream-enable), enable() returns an
\* error with the power reference released, the flips unlocked and the session Idle
C1_SeqFailureAbortsEnable ==
    \A t \in Threads :
        (At(t, "en_ret") /\ FailedIn(SeqSrcs))
            => /\ th[t].ret # 0
               /\ usage_count = pre.usage
               /\ NoneGrabbed
               /\ session = "Idle"

\* C2: when the write at index k of the common register sequence fails, the bus
\* has seen exactly the k preceding table entries in order and then the failing
\* one, nothing is issued after it, and enable() returns the error with the
\* flips unlocked, the session Idle and the power reference released
C2_CommonFailureAtK ==
    \A t \in Threads :
        (th[t].op = "enable" /\ FailedIn({ "common" }))
            => LET n == Len(bus_log)
               IN  /\ n <= NumCommonRegs
                   /\ \A i \in 1..(n - 1) :
                        bus_log[i] = cci_write8("common", mode_common_regs[i].reg,
                                                mode_common_regs[i].val, TRUE)
                   /\ bus_log[n] = cci_write8("common", mode_common_regs[n].reg,
                                              mode_common_regs[n].val, FALSE)
                   /\ th[t].pc \in { "en_err_rpm_put", "en_ret" }
                   /\ th[t].ret # 0
                   /\ NoneGrabbed
                   /\ At(t, "en_ret") => (session = "Idle" /\ usage_count = pre.usage)

\* C2 witness: enable() has returned after the last table entry failed
C2_Witness ==
    \E t \in Threads :
        /\ At(t, "en_ret")
        /\ Len(bus_log) = NumCommonRegs
        /\ bus_log[NumCommonRegs].src = "common"
        /\ ~bus_log[NumCommonRegs].ok

\* C3: no register operation is ever issued on behalf of exposure, vblank,
\* hblank or brightness, in set_control or in the re-application inside enable()
C3_NonLiveControlsNeverWrite ==
    \A i \in DOMAIN bus_log :
        bus_log[i].src \notin { "exposure", "vblank", "hblank", "brightness" }

\* C4: setting a flip while the session is Streaming yields the Locked error
\* (-EBUSY) with no bus operation; setting it while not streaming, when the
\* handler's powered check finds the device active, issues exactly one register
\* write, to that flip's register
C4_FlipLockedOrWrittenOnce ==
    \A t \in Threads :
        (th[t].op = "set_ctrl" /\ th[t].ctx = "user" /\ th[t].ctl.id \in Flips)
            => /\ pre.session = "Streaming"
                    => (At(t, "sc_ret") /\ th[t].sret = EBUSY /\ bus_log = << >>)
               /\ (pre.session # "Streaming" /\ th[t].active /\ At(t, "sc_ret"))
                    => /\ Len(bus_log) = 1
                       /\ bus_log[1].op = "write"
                       /\ bus_log[1].reg = IF th[t].ctl.id = "vflip"
                                           THEN GMAX4002_REG_FLIP_V
                                           ELSE GMAX4002_REG_FLIP_H

\* C4 witness: hflip was set while Streaming and the call is about to return
C4_Witness ==
    \E t \in Threads :
        /\ At(t, "sc_ret")
        /\ th[t].ctl.id = "hflip"
        /\ pre.session = "Streaming"

\* C5: when disable() follows a successful enable() immediately, the power
\* reference count, the flip lock flags, the streaming flag and the session
\* state are those of before enable()
C5_EnableDisableRoundTrip ==
    \A t \in Threads :
        (At(t, "dis_ret") /\ prev = "enable_ok")
            => /\ usage_count = pre_enable.usage
               /\ grabbed = pre_enable.grabbed
               /\ streaming = pre_enable.streaming
               /\ session = pre_enable.session

\* C5 witness: disable() is about to return right after a successful enable()
C5_Witness ==
    \E t \in Threads :
        /\ At(t, "dis_ret")
        /\ prev = "enable_ok"
        /\ pre.session = "Streaming"

\* C6: disable() from Streaming unlocks both flips, releases the power
\* reference, leaves the session Idle and returns success on every execution
C6_DisableAlwaysSucceeds ==
    \A t \in Threads :
        (At(t, "dis_ret") /\ pre.session = "Streaming")
            => /\ th[t].ret = 0
               /\ NoneGrabbed
               /\ usage_count = pre.usage - 1
               /\ session = "Idle"

\* C7: a set_control entered while the device is not powered never reaches the
\* switch, issues no bus operation, returns success and leaves the power
\* reference count, the lock flags, the streaming flag and the session unchanged
C7_UnpoweredSetControlIsNoOp ==
    \A t \in Threads :
        (th[t].op = "set_ctrl" /\ th[t].ctx = "user" /\ pre.rpm # "active")
            => /\ th[t].pc \in { "sc_get", "sc_ret" }
               /\ bus_log = << >>
               /\ th[t].sret = 0
               /\ rpm_status # "active"
               /\ usage_count = pre.usage
               /\ grabbed = pre.grabbed
               /\ streaming = pre.streaming
               /\ session = pre.session

\* C7 witness: a set of the analog gain on an unpowered device is about to return
C7_Witness ==
    \E t \in Threads :
        /\ At(t, "sc_ret")
        /\ th[t].ctx = "user"
        /\ th[t].ctl.id = "gain"
        /\ pre.rpm = "suspended"

\* C8: from the powered check of set_control to the drop of its reference the
\* device is active with rails, clock and reset up and power_off is not
\* running; a set_control that saw the device unpowered issues no bus operation
C8_NoWriteRacesPowerOff ==
    \A t \in Threads :
        /\ th[t].pc \in { "sc_switch", "sc_put" }
             => /\ rpm_status = "active"
                /\ pm_pc = "idle"
                /\ usage_count > 0
                /\ supplies /\ xclk /\ reset_gpio = 1
        /\ (th[t].op = "set_ctrl" /\ At(t, "sc_ret") /\ ~th[t].active)
             => bus_log = << >>

\* C8 witness: a caller's register write is pending while its reference is the
\* only one that keeps the idle device from being suspended
C8_Witness ==
    \E t \in Threads :
        /\ At(t, "sc_switch")
        /\ th[t].ctx = "user"
        /\ set_ctrl_reg(th[t].ctl.id) # 0
        /\ usage_count = 1
        /\ session = "Idle"

\* C9: enable, disable, set_control and set_fmt never overlap: at most one
\* caller is inside one of them, and it owns the one lock they all run under
C9_OperationsMutuallyExclusive ==
    \A t1 \in Threads :
        InOp(t1)
            => /\ lock[LockOf(th[t1].op)] = t1
               /\ \A t2 \in Threads : (t2 # t1) => ~InOp(t2)

\* C9 witness: one caller is in the middle of enable() while the other is idle
C9_Witness ==
    \E t1 \in Threads :
        /\ At(t1, "sc_switch")
        /\ th[t1].ctx = "setup"
        /\ \E t2 \in Threads : t2 # t1 /\ ~InOp(t2)

\* the steps of a successful gmax4002_power_on, in order
PowerOnOrder ==
    << "regulator_bulk_enable", "clk_prepare_enable", "reset_release", "usleep_range" >>

InPowerOn(t) ==
    th[t].pc \in { "pon_regulator", "pon_clk", "pon_reg_off", "pon_gpio",
                   "pon_delay", "pon_ret" }

\* C10: power_on() enables the rails, then the clock, then releases reset, then
\* waits; a step is taken only after every earlier one succeeded, and it returns
\* 0 (device ready) only after all four
C10_PowerOnOrder ==
    \A t \in Threads :
        InPowerOn(t)
            => /\ \A i \in DOMAIN pwr_log :
                    pwr_log[i].step # "regulator_bulk_disable"
                        => /\ i <= Len(PowerOnOrder)
                           /\ pwr_log[i].step = PowerOnOrder[i]
                           /\ \A j \in 1..(i - 1) : pwr_log[j].ok
               /\ (At(t, "pon_ret") /\ th[t].ret = 0)
                    => /\ Len(pwr_log) = Len(PowerOnOrder)
                       /\ \A i \in DOMAIN pwr_log : pwr_log[i].ok
                       /\ supplies /\ xclk /\ reset_gpio = 1
               /\ rpm_status # "active"

\* C10 witness: power_on() is about to return 0
C10_Witness ==
    \E t \in Threads :
        /\ At(t, "pon_ret")
        /\ th[t].ret = 0
        /\ Len(pwr_log) = Len(PowerOnOrder)

\* the rails, the clock and the reset line of an unpowered device
Unpowered ==
    /\ ~supplies
    /\ ~xclk
    /\ reset_gpio = 0

\* C11: when a step of power_on() fails, it returns the error with the steps
\* already taken undone in reverse order: after a failed rail enable nothing else
\* is touched; after a failed clock enable the rails are disabled again and the
\* reset line is never touched; either way the device ends unpowered
C11_PowerOnFailureUndone ==
    \A t \in Threads :
        /\ (At(t, "pon_ret") /\ th[t].ret # 0)
              => /\ \/ pwr_log = << PwrStep("regulator_bulk_enable", FALSE) >>
                    \/ pwr_log = << PwrStep("regulator_bulk_enable", TRUE),
                                    PwrStep("clk_prepare_enable", FALSE),
                                    PwrStep("regulator_bulk_disable", TRUE) >>
                 /\ Unpowered
                 /\ rpm_status # "active"
        /\ At(t, "en_get_fail")
              => /\ th[t].ret # 0
                 /\ Unpowered
                 /\ rpm_status = "suspended"

\* C11 witness: power_on() is about to return the error of a failed clock
\* enable, the rails disabled again
C11_Witness ==
    \E t \in Threads :
        /\ At(t, "pon_ret")
        /\ th[t].ret # 0
        /\ Len(pwr_log) = 3

\* the last three steps of the power log
LastPowerOff ==
    SubSeq(pwr_log, Len(pwr_log) - 2, Len(pwr_log))

WasOff(hw) ==
    /\ ~hw.supplies
    /\ ~hw.xclk
    /\ hw.reset_gpio = 0

PoweredAndHeld ==
    /\ usage_count > 0
    /\ rpm_status = "active"
    /\ pm_pc = "idle"
    /\ supplies /\ xclk /\ reset_gpio = 1

\* C13: in every reachable state a streaming session is powered: from a
\* successful enable() to the matching disable() it holds a power reference, so
\* no suspend and no power_off happens while Streaming; and the session's
\* streaming flag is true exactly in that interval
C13_StreamingFlagImpliesPowered ==
    /\ session = "Streaming" => PoweredAndHeld
    /\ streaming => PoweredAndHeld
    /\ streaming <=> (session = "Streaming")

\* the register operations of the micro-sequence in the bus log, in log order
MicroOps ==
    SelectSeq(bus_log, LAMBDA e : e.src = "micro")

\* positions of the bus log
StreamEnAt(i) ==
    i \in DOMAIN bus_log /\ bus_log[i].src = "stream_en"

\* register, mask and value of the updates between the 100 ms settle window and
\* the stream-output enable, in program order
MicroSequence ==
    << << REG_3024, 32, 0 >>, << REG_3023, 240, 240 >>, << REG_3023, 1, 1 >>,
       << REG_3023, 6, 6 >>, << REG_3024, 32, 32 >>, << REG_3023, 4, 0 >> >>

\* the micro-sequence operations issued so far are masked updates, the first
\* ones of the fixed sequence, in its order, with nothing between them
MicroOpsInOrder ==
    /\ Len(MicroOps) <= Len(MicroSequence)
    /\ \A i \in DOMAIN MicroOps :
         /\ MicroOps[i].op = "update_bits"
         /\ << MicroOps[i].reg, MicroOps[i].mask, MicroOps[i].val >> = MicroSequence[i]
    /\ \A i, j \in DOMAIN bus_log :
         (i < j /\ bus_log[i].src = "micro" /\ bus_log[j].src = "micro")
            => \A k \in i..j : bus_log[k].src = "micro"

\* C14, as claimed: between the second settle window (after the power-up write)
\* and the stream-output enable, enable() issues exactly five masked updates, in
\* a fixed order, with no other bus write between them
C14_FiveMicroUpdates ==
    /\ MicroOpsInOrder
    /\ \A i \in DOMAIN bus_log :
         StreamEnAt(i) => Len(MicroOps) = 5

\* C14, amended: the updates issued between the power-up write and the
\* stream-output enable are exactly six, always the same six in the same order,
\* with no other bus operation between them; after a failed operation the
\* remaining ones of the sequence, the stream-output enable included, are skipped
C14_SixMicroUpdates ==
    /\ MicroOpsInOrder
    /\ \A i \in DOMAIN bus_log :
         /\ StreamEnAt(i)
              => /\ Len(MicroOps) = 6
                 /\ \A k \in (i - 6)..(i - 1) : bus_log[k].src = "micro" /\ bus_log[k].ok
                 /\ bus_log[i - 7].src = "pwr_up"
         /\ (bus_log[i].src = "micro" /\ i > 1 /\ bus_log[i - 1].src # "micro")
              => bus_log[i - 1].src = "pwr_up" /\ bus_log[i - 1].ok
         /\ (bus_log[i].src \in SeqSrcs /\ ~bus_log[i].ok)
              => \A j \in (i + 1)..Len(bus_log) : bus_log[j].src \notin SeqSrcs

\* C14 witness: the stream-output enable has been issued after the whole
\* micro-sequence
C14_Witness ==
    /\ Len(MicroOps) = 6
    /\ \E i \in DOMAIN bus_log : StreamEnAt(i)

\* C15: on a powered device set_control(analog gain, v) issues exactly one write
\* of v to the analog-gain register; the result of the write is what the caller
\* gets, and after a failed write the power reference count, the streaming flag
\* and the flips' lock flags are what they were before the call
C15_GainWriteOnceErrorReturned ==
    \A t \in Threads :
        (/\ At(t, "sc_ret")
         /\ th[t].ctx = "user"
         /\ th[t].ctl.id = "gain"
         /\ th[t].active)
            => /\ Len(bus_log) = 1
               /\ bus_log[1].op = "write"
               /\ bus_log[1].reg = GMAX4002_REG_ANALOG_GAIN
               /\ bus_log[1].val = th[t].ctl.val
               /\ th[t].sret = (IF bus_log[1].ok THEN 0 ELSE EIO)
               /\ usage_count = pre.usage
               /\ grabbed = pre.grabbed
               /\ streaming = pre.streaming
               /\ session = pre.session

\* C15 witness: a gain write on a powered device failed and set_control is about
\* to return the error
C15_Witness ==
    \E t \in Threads :
        /\ At(t, "sc_ret")
        /\ th[t].ctx = "user"
        /\ th[t].ctl.id = "gain"
        /\ th[t].active
        /\ th[t].sret = EIO
        /\ Len(bus_log) = 1
        /\ ~bus_log[1].ok

\* the four allow-listed 10-bit Bayer codes
Bayer10 ==
    { MEDIA_BUS_FMT_SRGGB10_1X10, MEDIA_BUS_FMT_SGRBG10_1X10,
      MEDIA_BUS_FMT_SGBRG10_1X10, MEDIA_BUS_FMT_SBGGR10_1X10 }

Returned(t, op) ==
    At(t, "q_ret") /\ th[t].op = op

\* C16: resolve_format returns an allow-listed code unchanged and the first
\* entry of the allow-list (SRGGB10) for every other code; its result is always
\* in the allow-list, and resolving the result again gives the same result
C16_ResolveFormat ==
    \A t \in Threads :
        Returned(t, "get_format_code")
            => /\ th[t].arg \in Bayer10 => th[t].out = th[t].arg
               /\ th[t].arg \notin Bayer10 => th[t].out = MEDIA_BUS_FMT_SRGGB10_1X10
               /\ th[t].out \in Bayer10
               /\ gmax4002_get_format_code(th[t].out) = th[t].out

\* C16 witness: a code outside the allow-list has been resolved
C16_Witness ==
    \E t \in Threads :
        /\ Returned(t, "get_format_code")
        /\ th[t].arg = MEDIA_BUS_FMT_Y10_1X10
        /\ th[t].out = MEDIA_BUS_FMT_SRGGB10_1X10

\* C17: modes_for(code) is the one-element mode list exactly for the four
\* allow-listed 10-bit Bayer codes and the empty list for every other code, the
\* declared mono code included
C17_ModesFor ==
    \A t \in Threads :
        Returned(t, "get_mode_table")
            => /\ th[t].arg \in Bayer10
                    => /\ Len(th[t].out) = 1
                       /\ th[t].out[1].width = GMAX4002_NATIVE_WIDTH
                       /\ th[t].out[1].height = GMAX4002_NATIVE_HEIGHT
               /\ th[t].arg \notin Bayer10 => th[t].out = << >>
               /\ th[t].arg \in { mono_codes[i] : i \in DOMAIN mono_codes }
                    => th[t].out = << >>

\* C17 witness: the mode list of the mono code has been asked for
C17_Witness ==
    \E t \in Threads :
        /\ Returned(t, "get_mode_table")
        /\ th[t].arg = MEDIA_BUS_FMT_Y10_1X10
        /\ \E u \in Threads :
             /\ Returned(u, "get_mode_table")
             /\ th[u].arg = MEDIA_BUS_FMT_SBGGR10_1X10
             /\ Len(th[u].out) = 1

\* C18: enumerate_sizes(code, index) returns an error, the index not clamped
\* and no size written into the caller's structure, whenever index is not
\* smaller than the number of modes of code: index >= 1 for a supported code,
\* every index for an unsupported one; for a supported code and index 0 it
\* returns minimum = maximum = the mode's width and height
C18_EnumerateSizes ==
    \A t \in Threads :
        Returned(t, "enum_frame_size")
            => LET fse == th[t].arg
                   n   == IF fse.code \in Bayer10 THEN 1 ELSE 0
               IN  /\ fse.index >= n
                        => /\ th[t].out.ret = EINVAL
                           /\ th[t].out.fse = fse
                   /\ fse.index < n
                        => /\ th[t].out.ret = 0
                           /\ th[t].out.fse.min_width = GMAX4002_NATIVE_WIDTH
                           /\ th[t].out.fse.max_width = GMAX4002_NATIVE_WIDTH
                           /\ th[t].out.fse.min_height = GMAX4002_NATIVE_HEIGHT
                           /\ th[t].out.fse.max_height = GMAX4002_NATIVE_HEIGHT

\* C18 witness: index 1 of a supported code has been refused, the caller's
\* sizes untouched
C18_Witness ==
    \E t \in Threads :
        /\ Returned(t, "enum_frame_size")
        /\ th[t].arg.code = MEDIA_BUS_FMT_SGRBG10_1X10
        /\ th[t].arg.index = 1
        /\ th[t].arg.min_width = 1
        /\ th[t].out.ret = EINVAL
        /\ th[t].out.fse.min_width = 1

\* C19: in every session state and for every stored format,
\* get_selection(NativeSize) is (0, 0, 2048, 1218), get_selection(CropBounds)
\* and get_selection(CropDefault) are (left 0, top 18, 2048, 1200), and a target
\* other than NativeSize, CropBounds, CropDefault and Crop is refused as an
\* invalid argument
C19_GetSelection ==
    \A t \in Threads :
        At(t, "sel_ret")
            => LET tgt == th[t].arg.target
                   res == th[t].out
               IN  /\ tgt = "NATIVE_SIZE"
                        => /\ res.ret = 0
                           /\ res.r = [ left |-> 0, top |-> 0, width |-> 2048,
                                        height |-> 1218 ]
                   /\ tgt \in { "CROP_BOUNDS", "CROP_DEFAULT" }
                        => /\ res.ret = 0
                           /\ res.r = [ left |-> 0, top |-> 18, width |-> 2048,
                                        height |-> 1200 ]
                   /\ tgt \notin { "NATIVE_SIZE", "CROP_BOUNDS", "CROP_DEFAULT", "CROP" }
                        => res.ret = EINVAL

\* C19 witness: the crop bounds are asked for while the session is Streaming
\* with a stored format other than the default one
C19_Witness ==
    \E t \in Threads :
        /\ At(t, "sel_ret")
        /\ th[t].arg.target = "CROP_BOUNDS"
        /\ session = "Streaming"
        /\ fmt.code = MEDIA_BUS_FMT_SBGGR10_1X10

\* the stored crop lies inside the native pixel array
CropInNative ==
    /\ crop.left >= 0
    /\ crop.top >= 0
    /\ crop.left + crop.width <= 2048
    /\ crop.top + crop.height <= 1218

\* the handler steps that store a crop
StoresCrop ==
    \E t \in Threads : At(t, "fmt_apply") \/ At(t, "init_apply")

\* C20: after any sequence of state initialisations, format selections, control
\* sets, enable and disable calls the stored crop is a sub-rectangle of the
\* native size (left + width <= 2048, top + height <= 1218), and only format
\* selection and state initialisation store it: enable, disable, set_control
\* and get_selection leave it as it is
C20_CropWithinNative ==
    /\ [](CropInNative)
    /\ [][(crop' # crop) => StoresCrop]_vars
    /\ [][(\A t \in Threads : th[t].op \notin { "set_fmt", "init_state" })
            => UNCHANGED fmt_vars]_vars

\* C20 witness: a format selection has stored the crop of its mode while the
\* session is Streaming
C20_Witness ==
    \E t \in Threads :
        /\ At(t, "fmt_ret")
        /\ th[t].op = "set_fmt"
        /\ session = "Streaming"
        /\ CropInNative

\* the sources of the operations that follow the common table, in program order
EnableOrder ==
    << "clk_stable", "pwr_up", "micro", "micro", "micro", "micro", "micro", "micro",
       "stream_en" >>

\* the bus log is the whole start-up sequence followed by control writes only
WholeEnableSequence ==
    /\ Len(bus_log) >= NumCommonRegs + Len(EnableOrder)
    /\ \A i \in 1..NumCommonRegs :
         /\ bus_log[i].src = "common"
         /\ bus_log[i].reg = mode_common_regs[i].reg
    /\ \A j \in 1..Len(EnableOrder) :
         bus_log[NumCommonRegs + j].src = EnableOrder[j]
    /\ \A k \in (NumCommonRegs + Len(EnableOrder) + 1)..Len(bus_log) :
         bus_log[k].src \in { setup_ctrls[c] : c \in DOMAIN setup_ctrls }

\* C23: in a successful enable() the bus operations are, in this order: every
\* write of the common register sequence in table order, the clock-stable bit,
\* the power-up write, the micro-sequence, the stream-output enable bit, then the
\* stored control values; only after all of these are vflip and hflip locked and
\* the session Streaming
C23_EnableOrder ==
    \A t \in Threads :
        /\ (At(t, "en_ret") /\ th[t].ret = 0)
              => /\ WholeEnableSequence
                 /\ grabbed = [vflip |-> TRUE, hflip |-> TRUE]
                 /\ session = "Streaming"
        /\ (th[t].op = "enable" /\ th[t].pc # "en_ret")
              => /\ NoneGrabbed
                 /\ session # "Streaming"

\* a control write issued by the re-application of the stored values failed
SetupWriteFailed ==
    \E i \in DOMAIN bus_log :
        /\ bus_log[i].src \in { setup_ctrls[c] : c \in DOMAIN setup_ctrls }
        /\ ~bus_log[i].ok

\* C24: when re-applying the stored control values inside enable() fails (the
\* register write of a control fails), enable() returns that error with the
\* power reference released, neither flip locked and the session Idle
C24_SetupFailureAbortsEnable ==
    \A t \in Threads :
        (At(t, "en_ret") /\ SetupWriteFailed)
            => /\ th[t].ret = EIO
               /\ usage_count = pre.usage
               /\ NoneGrabbed
               /\ session = "Idle"
               /\ ~bus_log[Len(bus_log)].ok

\* C24 witness: enable() is about to return the error of a failed vflip write
C24_Witness ==
    \E t \in Threads :
        /\ At(t, "en_ret")
        /\ SetupWriteFailed
        /\ bus_log[Len(bus_log)].src = "vflip"
        /\ th[t].ret = EIO

BothGrabbed ==
    grabbed = [vflip |-> TRUE, hflip |-> TRUE]

\* the flips' lock flags agree with the session state; inside disable() the
\* flips are unlocked one step before the power reference is dropped
FlipsLockedIffStreaming ==
    /\ ~NoneGrabbed => (BothGrabbed /\ session = "Streaming")
    /\ (session = "Streaming" /\ \A t \in Threads : th[t].op # "disable") => BothGrabbed
    /\ \A t \in Threads :
         /\ (At(t, "en_ret") /\ th[t].ret # 0) => (NoneGrabbed /\ session = "Idle")
         /\ At(t, "dis_ret") => (NoneGrabbed /\ session = "Idle")

\* C25: in every reachable state vflip and hflip are both Locked if and only if
\* the session is Streaming: they become Locked only as the last step of a
\* successful enable(), a failed enable() never leaves one Locked, and disable()
\* unlocks both
C25_FlipsLockedIffStreaming ==
    /\ [](FlipsLockedIffStreaming)
    /\ [][(grabbed' # grabbed /\ ~NoneGrabbed')
            => \E t \in Threads :
                 /\ At(t, "en_grab")
                 /\ th'[t].pc = "en_ret"
                 /\ th'[t].ret = 0
                 /\ BothGrabbed']_vars

\* C25 witness: a disable() has unlocked both flips of a Streaming session and
\* is about to return
C25_Witness ==
    \E t \in Threads :
        /\ At(t, "dis_ret")
        /\ pre.session = "Streaming"
        /\ pre.grabbed = [vflip |-> TRUE, hflip |-> TRUE]
        /\ NoneGrabbed

\* C26: every operation balances the power reference count: a set_control call
\* (one whose write fails and one that finds the device unpowered included) and a
\* failed enable() (a failed initial power-on included) return with the count
\* they found; a successful enable() raises it by exactly one and a disable()
\* lowers it by exactly one; the count is never negative
C26_UsageCountBalanced ==
    /\ usage_count >= 0
    /\ \A t \in Threads :
         /\ (At(t, "sc_ret") /\ th[t].ctx = "user") => usage_count = pre.usage
         /\ (At(t, "en_ret") /\ th[t].ret # 0) => usage_count = pre.usage
         /\ (At(t, "en_ret") /\ th[t].ret = 0) => usage_count = pre.usage + 1
         /\ At(t, "dis_ret") => usage_count = pre.usage - 1

\* C29: format selection never works on an empty mode list: whatever code,
\* width and height are requested, the code is normalised first and the mode
\* list of the normalised code has exactly one entry, so the selected mode
\* exists and the stored format ends with an allow-listed code, width 2048,
\* height 1218 and crop (0, 18, 2048, 1200)
C29_SetFormatModeExists ==
    \A t \in Threads :
        /\ (At(t, "fmt_apply") /\ th[t].op = "set_fmt")
              => LET modes == get_mode_table(gmax4002_get_format_code(th[t].req.code))
                 IN  /\ Len(modes) = 1
                     /\ find_nearest_size(modes, th[t].req.width, th[t].req.height) = 1
        /\ (At(t, "fmt_ret") /\ th[t].op = "set_fmt")
              => /\ th[t].ret = 0
                 /\ fmt.code \in { MEDIA_BUS_FMT_SRGGB10_1X10, MEDIA_BUS_FMT_SGRBG10_1X10,
                                   MEDIA_BUS_FMT_SGBRG10_1X10, MEDIA_BUS_FMT_SBGGR10_1X10 }
                 /\ fmt.width = 2048
                 /\ fmt.height = 1218
                 /\ crop = [left |-> 0, top |-> 18, width |-> 2048, height |-> 1200]

\* C29 witness: a format with the mono code and size 0x0 was requested and the
\* default Bayer format is stored
C29_Witness ==
    \E t \in Threads :
        /\ At(t, "fmt_ret")
        /\ th[t].op = "set_fmt"
        /\ th[t].req.code = MEDIA_BUS_FMT_Y10_1X10
        /\ th[t].req.width = 0
        /\ fmt.code = MEDIA_BUS_FMT_SRGGB10_1X10

\* C30: format-code enumeration succeeds for index 0 only and reports the first
\* code of the allow-list; every index >= 1 is an error, so the three other
\* Bayer codes, which format selection accepts unchanged, are never enumerated
C30_EnumerateCodes ==
    \A t \in Threads :
        Returned(t, "enum_mbus_code")
            => /\ th[t].arg.index = 0
                    => /\ th[t].out.ret = 0
                       /\ th[t].out.e.code = MEDIA_BUS_FMT_SRGGB10_1X10
               /\ th[t].arg.index >= 1
                    => /\ th[t].out.ret = EINVAL
                       /\ th[t].out.e = th[t].arg
               /\ \A c \in { MEDIA_BUS_FMT_SGRBG10_1X10, MEDIA_BUS_FMT_SGBRG10_1X10,
                             MEDIA_BUS_FMT_SBGGR10_1X10 } :
                    /\ th[t].out.ret = 0 => th[t].out.e.code # c
                    /\ gmax4002_get_format_code(c) = c

\* C30 witness: index 1 has been refused and the caller's code left as it was
C30_Witness ==
    \E t \in Threads :
        /\ Returned(t, "enum_mbus_code")
        /\ th[t].arg.index = 1
        /\ th[t].arg.code = 1
        /\ th[t].out.ret = EINVAL
        /\ th[t].out.e.code = 1

\* the steps of gmax4002_power_off, and how often a step was logged
PowerOffOrder ==
    << "reset_assert", "regulator_bulk_disable", "clk_disable_unprepare" >>

StepCount(step) ==
    Cardinality({ i \in DOMAIN pwr_log : pwr_log[i].step = step })

ProbeFailed(t) ==
    /\ th[t].op = "probe"
    /\ th[t].pc = "pr_failed"

\* C21: at attach, a hardware configuration mismatch (no endpoint, an endpoint
\* that does not parse, a data-lane count other than 4) makes the probe fail
\* with -EINVAL before any power sequencing: no rail, clock or reset operation
\* and no bus access is performed on that attempt
C21_HwcfgMismatchBeforePower ==
    \A t \in Threads :
        (th[t].op = "probe" /\ th[t].arg.endpoint # "lanes4") =>
            /\ th[t].pc \in { "pr_hwcfg", "pr_failed" }
            /\ th[t].pc = "pr_failed" => th[t].ret = EINVAL
            /\ pwr_log = << >>
            /\ bus_log = << >>
            /\ Unpowered
            /\ rpm_status = "suspended"

C21_Witness ==
    \E t \in Threads :
        /\ ProbeFailed(t)
        /\ th[t].arg.endpoint = "lanes2"
        /\ th[t].ret = EINVAL
        /\ pwr_log = << >>

\* the controls exist from gmax4002_init_controls on
ControlsCreated ==
    \/ Bound
    \/ \E t \in Threads : th[t].pc \in { "pr_subdev", "pr_put" }

\* C22: for every external clock rate, the reported pixel rate and the reported
\* link frequency are the same fixed values (the pixel-rate control reports its
\* default, 1, and the link-frequency menu its only entry); the rate read at
\* attach influences neither
C22_RatesIndependentOfXclk ==
    ControlsCreated =>
        /\ cur.pixel_rate = 1
        /\ cur.pixel_rate <= GMAX4002_PIXEL_RATE
        /\ cur.link_freq = GMAX4002_LINK_FREQ

C22_Witness ==
    \E t \in Threads :
        /\ th[t].op = "probe"
        /\ th[t].pc = "pr_subdev"
        /\ th[t].arg.xclk_freq = 37125000
        /\ cur.link_freq = GMAX4002_LINK_FREQ

\* gmax4002_power_on is about to start, gmax4002_power_off is about to start
PowerOnEntered ==
    \E t \in Threads : th[t].pc = "pon_regulator"

PowerOffEntered ==
    pm_pc = "poff_gpio"

\* C27: over attach, enable, disable, set_control, auto-suspend, resume and
\* detach, gmax4002_power_on starts only with the rails and the clock disabled
\* and gmax4002_power_off only with both enabled, so that no rail or clock is
\* disabled twice, and after detach the device is unpowered
C27_PowerOnOffAlternate ==
    /\ PowerOnEntered => (~supplies /\ ~xclk /\ pm_pc = "idle")
    /\ PowerOffEntered => (supplies /\ xclk /\ ~PowerOnEntered)
    /\ \A i \in DOMAIN pwr_log :
         pwr_log[i].step \in { "regulator_bulk_disable", "clk_disable_unprepare" }
             => pwr_log[i].ok
    /\ \A t \in Threads :
         th[t].pc = "rm_done" => (Unpowered /\ rpm_status = "suspended")

\* detach of a device that was auto-suspended: power_off is not run again
C27_Witness ==
    \E t \in Threads :
        /\ th[t].pc = "rm_done"
        /\ pwr_log = << >>
        /\ Unpowered

\* C28: when the probe fails after its power_on succeeded, power_off has run
\* exactly once before the probe returns the error, and the device ends
\* unpowered; when power_on itself fails, the probe returns its error and no
\* step of power_off was taken
C28_AttachFailurePowersOffOnce ==
    \A t \in Threads :
        ProbeFailed(t) =>
            /\ th[t].ret # 0
            /\ StepCount("usleep_range") = 1 =>
                 /\ \A k \in DOMAIN PowerOffOrder : StepCount(PowerOffOrder[k]) = 1
                 /\ SubSeq(pwr_log, Len(pwr_log) - 2, Len(pwr_log))
                        = [k \in DOMAIN PowerOffOrder |-> PwrStep(PowerOffOrder[k], TRUE)]
                 /\ Unpowered
                 /\ pm_pc = "idle"
            /\ (StepCount("regulator_bulk_enable") = 1 /\ StepCount("usleep_range") = 0) =>
                 /\ StepCount("reset_assert") = 0
                 /\ StepCount("clk_disable_unprepare") = 0
                 /\ ~supplies
                 /\ ~xclk

C28_Witness ==
    \E t \in Threads :
        /\ ProbeFailed(t)
        /\ StepCount("usleep_range") = 1
        /\ StepCount("reset_assert") = 1
        /\ bus_log # << >>
        /\ ~bus_log[Len(bus_log)].ok
        /\ Unpowered

====
